---- MODULE Spec2Model ----
(***************************************************************************)
(* Untangle game: puzzle generator (GameLevel), intersection engine        *)
(* (IntersectionDetector), geometry primitives (MathUtils) and the game    *)
(* controller (Game).                                                      *)
(*                                                                         *)
(* Coordinates are fixed-point integers: one pixel is UnitsPerPixel model  *)
(* units.  The segment test and the distance comparisons only use          *)
(* differences, products of differences and their signs, so on these       *)
(* values they are computed exactly as the floating-point code computes    *)
(* them.  A coordinate that is NaN in the program is a point whose nan     *)
(* field is TRUE.                                                          *)
(***************************************************************************)
EXTENDS Integers, Sequences, FiniteSets, TLC

VARIABLES
    dCircles,   \* IntersectionDetector harness: the circles argument
    dLines,     \* IntersectionDetector harness: the lines argument (flags mutated in place)
    dCalls,     \* number of updateIntersections calls since the arguments last changed (0..2)
    dFirst,     \* the lines as they were after the first of those calls
    dBefore,    \* the lines as they were when the first of those calls started
    dMoves,     \* number of position changes made so far
    dThrew,     \* the last updateIntersections call ended in a TypeError
    gen,        \* GameLevel.generateLevel in progress: its locals and its position
    game,       \* the Game object, the input manager, localStorage and the history
    page        \* an InputManager and an AutoUpdateManager on their own, with the callbacks delivered

detVars == <<dCircles, dLines, dCalls, dFirst, dBefore, dMoves, dThrew>>

genVars == <<gen>>

gameVars == <<game>>

vars == <<dCircles, dLines, dCalls, dFirst, dBefore, dMoves, dThrew, gen, game, page>>

-----------------------------------------------------------------------------
(* Bounds of the model *)

MaxLines == 6
MaxMoves == 2
MaxLevel == 7
MaxNoisyTies == 1
MaxCallbacks == 4
MaxChecks == 2

-----------------------------------------------------------------------------
(* Types (GameTypes.ts) *)

Pt(px, py) == [x |-> px, y |-> py, nan |-> FALSE]

NaNPoint == [x |-> 0, y |-> 0, nan |-> TRUE]

Circle(cid, pos, conns) ==
    [id |-> cid, position |-> pos, radius |-> 30, isDragging |-> FALSE, connections |-> conns]

Line(f, t, flag) == [from |-> f, to |-> t, isIntersecting |-> flag]

-----------------------------------------------------------------------------
(* MathUtils *)

Abs(v) == IF v < 0 THEN -v ELSE v

\* MathUtils.distance, squared (the code only compares distances with each
\* other and with constants, and sqrt is monotone)
Distance2(p1, p2) ==
    LET dx == p2.x - p1.x
        dy == p2.y - p1.y
    IN  dx * dx + dy * dy

\* a distance is NaN as soon as one coordinate is
DistanceIsNaN(p1, p2) == p1.nan \/ p2.nan

\* the variant without the parallel guard
LineSegmentsIntersectNoGuard(p1, p2, p3, p4) ==
    IF p1.nan \/ p2.nan \/ p3.nan \/ p4.nan THEN FALSE
    ELSE
    LET denom == (p4.y - p3.y) * (p2.x - p1.x) - (p4.x - p3.x) * (p2.y - p1.y)
        na == (p4.x - p3.x) * (p1.y - p3.y) - (p4.y - p3.y) * (p1.x - p3.x)
        nb == (p2.x - p1.x) * (p1.y - p3.y) - (p2.y - p1.y) * (p1.x - p3.x)
        InUnit(n) == IF denom > 0 THEN 0 <= n /\ n <= denom
                     ELSE denom <= n /\ n <= 0
    IN  InUnit(na) /\ InUnit(nb)

\* the variant with open intervals (boundary contact not counted)
LineSegmentsIntersectOpen(p1, p2, p3, p4) ==
    IF p1.nan \/ p2.nan \/ p3.nan \/ p4.nan THEN FALSE
    ELSE
    LET denom == (p4.y - p3.y) * (p2.x - p1.x) - (p4.x - p3.x) * (p2.y - p1.y)
        na == (p4.x - p3.x) * (p1.y - p3.y) - (p4.y - p3.y) * (p1.x - p3.x)
        nb == (p2.x - p1.x) * (p1.y - p3.y) - (p2.y - p1.y) * (p1.x - p3.x)
        InUnit(n) == IF denom > 0 THEN 0 < n /\ n < denom
                     ELSE denom < n /\ n < 0
    IN  IF denom = 0 THEN FALSE ELSE InUnit(na) /\ InUnit(nb)

\* MathUtils.lineSegmentsIntersect.  On integer coordinates |denom| < 1e-10
\* is denom = 0; ua = na / denom lies in [0,1] iff na lies between 0 and
\* denom.  With a NaN coordinate denom, ua and ub are NaN, every comparison
\* is false and the result is false.
LineSegmentsIntersect(p1, p2, p3, p4) ==
    IF p1.nan \/ p2.nan \/ p3.nan \/ p4.nan THEN FALSE
    ELSE
    LET denom == (p4.y - p3.y) * (p2.x - p1.x) - (p4.x - p3.x) * (p2.y - p1.y)
        na == (p4.x - p3.x) * (p1.y - p3.y) - (p4.y - p3.y) * (p1.x - p3.x)
        nb == (p2.x - p1.x) * (p1.y - p3.y) - (p2.y - p1.y) * (p1.x - p3.x)
        InUnit(n) == IF denom > 0 THEN 0 <= n /\ n <= denom
                     ELSE denom <= n /\ n <= 0
    IN  IF denom = 0 THEN FALSE ELSE InUnit(na) /\ InUnit(nb)

-----------------------------------------------------------------------------
(* IntersectionDetector *)

\* circles.find(c => c.id === id): index of the first circle with that id,
\* 0 for undefined
Find(circles, cid) ==
    IF \E k \in 1..Len(circles) : circles[k].id = cid
    THEN CHOOSE k \in 1..Len(circles) :
            /\ circles[k].id = cid
            /\ \A m \in 1..(k - 1) : circles[m].id # cid
    ELSE 0

\* IntersectionDetector.shareEndpoint / GameLevel.shareEndpoint
ShareEndpointNever(line1, line2) == FALSE

ShareEndpoint(line1, line2) ==
    \/ line1.from = line2.from
    \/ line1.from = line2.to
    \/ line1.to = line2.from
    \/ line1.to = line2.to

\* lines.forEach(line => line.isIntersecting = false)
ResetFlagsKeep(lines) == lines

ResetFlagsToggle(lines) ==
    [k \in 1..Len(lines) |-> [lines[k] EXCEPT !.isIntersecting = ~lines[k].isIntersecting]]

ResetFlags(lines) ==
    [k \in 1..Len(lines) |-> [lines[k] EXCEPT !.isIntersecting = FALSE]]

\* the loop with line2.isIntersecting = true left out
RECURSIVE PairLoopOneFlag(_, _, _, _)
PairLoopOneFlag(circles, lines, i, j) ==
    IF i > Len(lines) THEN [lines |-> lines, threw |-> FALSE]
    ELSE IF j > Len(lines) THEN PairLoopOneFlag(circles, lines, i + 1, i + 2)
    ELSE IF ShareEndpoint(lines[i], lines[j]) THEN PairLoopOneFlag(circles, lines, i, j + 1)
    ELSE
        LET c1f == Find(circles, lines[i].from)
            c1t == Find(circles, lines[i].to)
            c2f == Find(circles, lines[j].from)
            c2t == Find(circles, lines[j].to)
        IN  IF c1f = 0 \/ c1t = 0 \/ c2f = 0 \/ c2t = 0
            THEN [lines |-> lines, threw |-> TRUE]
            ELSE IF LineSegmentsIntersect(circles[c1f].position, circles[c1t].position,
                                          circles[c2f].position, circles[c2t].position)
            THEN PairLoopOneFlag(circles, [lines EXCEPT ![i].isIntersecting = TRUE], i, j + 1)
            ELSE PairLoopOneFlag(circles, lines, i, j + 1)

\* the nested loop of updateIntersections from pair (i, j) on; a lookup that
\* finds no circle makes the position access throw, which ends the call
\* with the flags set so far
RECURSIVE PairLoop(_, _, _, _)
PairLoop(circles, lines, i, j) ==
    IF i > Len(lines) THEN [lines |-> lines, threw |-> FALSE]
    ELSE IF j > Len(lines) THEN PairLoop(circles, lines, i + 1, i + 2)
    ELSE IF ShareEndpoint(lines[i], lines[j]) THEN PairLoop(circles, lines, i, j + 1)
    ELSE
        LET c1f == Find(circles, lines[i].from)
            c1t == Find(circles, lines[i].to)
            c2f == Find(circles, lines[j].from)
            c2t == Find(circles, lines[j].to)
        IN  IF c1f = 0 \/ c1t = 0 \/ c2f = 0 \/ c2t = 0
            THEN [lines |-> lines, threw |-> TRUE]
            ELSE IF LineSegmentsIntersect(circles[c1f].position, circles[c1t].position,
                                          circles[c2f].position, circles[c2t].position)
            THEN PairLoop(circles,
                          [lines EXCEPT ![i].isIntersecting = TRUE,
                                        ![j].isIntersecting = TRUE],
                          i, j + 1)
            ELSE PairLoop(circles, lines, i, j + 1)

\* IntersectionDetector.updateIntersections: the lines with their new flags
UpdateIntersections(circles, lines) == PairLoop(circles, ResetFlags(lines), 1, 2)


-----------------------------------------------------------------------------
(* GameLevel: level parameters and the circular layout *)

CIRCLE_RADIUS == 30
MIN_DISTANCE == 120
LayoutMargin == 100
ScrambleMargin == 80
PriorityMaxAttempts == 1000
ScrambleMaxAttempts == 200
\* iterations of the scramble loop evaluated per run (evaluation depth only)
ScrambleBlock == ScrambleMaxAttempts \div 10
ShareTolerance == 1

\* Model units per pixel.  A canvas whose layout circle has a radius of a
\* few pixels is resolved finer, so that the rounding of the layout
\* positions stays small against the distances between them.
UnitsPerPixel(canvasSize) ==
    LET m == IF canvasSize.x < canvasSize.y THEN canvasSize.x ELSE canvasSize.y
    IN  IF Abs(m - 2 * LayoutMargin) <= 4 THEN 2000 ELSE 10

\* 100000 * cos(2 pi i / n) and 100000 * sin(2 pi i / n), i = 0..n-1
TrigScale == 100 * 1000

CosTable ==
    (6 :> <<100000, 50000, -50000, -100000, -50000, 50000>>)
    @@ (7 :> <<100000, 62349, -22252, -90097, -90097, -22252, 62349>>)
    @@ (8 :> <<100000, 70711, 0, -70711, -100000, -70711, 0, 70711>>)
    @@ (9 :> <<100000, 76604, 17365, -50000, -93969, -93969, -50000, 17365, 76604>>)
    @@ (10 :> <<100000, 80902, 30902, -30902, -80902, -100000, -80902, -30902, 30902, 80902>>)
    @@ (11 :> <<100000, 84125, 41542, -14231, -65486, -95949, -95949, -65486, -14231, 41542, 84125>>)
    @@ (12 :> <<100000, 86603, 50000, 0, -50000, -86603, -100000, -86603, -50000, 0, 50000, 86603>>)

SinTable ==
    (6 :> <<0, 86603, 86603, 0, -86603, -86603>>)
    @@ (7 :> <<0, 78183, 97493, 43388, -43388, -97493, -78183>>)
    @@ (8 :> <<0, 70711, 100000, 70711, 0, -70711, -100000, -70711>>)
    @@ (9 :> <<0, 64279, 98481, 86603, 34202, -34202, -86603, -98481, -64279>>)
    @@ (10 :> <<0, 58779, 95106, 95106, 58779, 0, -58779, -95106, -95106, -58779>>)
    @@ (11 :> <<0, 54064, 90963, 98982, 75575, 28173, -28173, -75575, -98982, -90963, -54064>>)
    @@ (12 :> <<0, 50000, 86603, 100000, 86603, 50000, 0, -50000, -86603, -100000, -86603, -50000>>)

\* v / TrigScale rounded to the nearest unit
RoundScaled(v) == (2 * v + TrigScale) \div (2 * TrigScale)

\* the progression with the two steps exchanged
CalculateLevelParametersNodesFirst(levelNumber) ==
    [nodeCount |-> 6 + ((levelNumber - 1) % 3),
     connectionsPerNode |-> 3 + ((levelNumber - 1) \div 3)]

\* GameLevel.calculateLevelParameters
CalculateLevelParameters(levelNumber) ==
    LET baseNodes == 6
        maxConnectionsPerNode == 3
        connectionCycle == (levelNumber - 1) \div maxConnectionsPerNode
        connectionLevel == (levelNumber - 1) % maxConnectionsPerNode
    IN  [nodeCount |-> baseNodes + connectionCycle,
         connectionsPerNode |-> 3 + connectionLevel]

\* GameLevel.createNonIntersectingLayout: node i at angle 2 pi i / nodeCount
\* on the circle of radius min(x, y) / 2 - margin around the canvas centre
CreateNonIntersectingLayout(nodeCount, canvasSize) ==
    LET u == UnitsPerPixel(canvasSize)
        m == IF canvasSize.x < canvasSize.y THEN canvasSize.x ELSE canvasSize.y
        centerX == (u * canvasSize.x) \div 2
        centerY == (u * canvasSize.y) \div 2
        radius == (u * m) \div 2 - u * LayoutMargin
    IN  [i \in 1..nodeCount |->
            Circle(i - 1,
                   Pt(centerX + RoundScaled(radius * CosTable[nodeCount][i]),
                      centerY + RoundScaled(radius * SinTable[nodeCount][i])),
                   <<>>)]

-----------------------------------------------------------------------------
(* GameLevel: edge assignment *)

Min2(a, b) == IF a < b THEN a ELSE b
Max2(a, b) == IF a < b THEN b ELSE a

\* connectionKey `${min}-${max}`
ConnectionKey(a, b) == <<Min2(a, b), Max2(a, b)>>

Includes(seq, v) == \E k \in 1..Len(seq) : seq[k] = v

\* the exemption by endpoint ids, as the detector has it
LinesShareEndpointNever(line1From, line1To, line2From, line2To, u) == FALSE

\* GameLevel.linesShareEndpoint: some endpoint of one segment lies within
\* the tolerance (one pixel) of an endpoint of the other
LinesShareEndpoint(line1From, line1To, line2From, line2To, u) ==
    LET tol2 == (ShareTolerance * u) * (ShareTolerance * u)
    IN  \/ Distance2(line1From, line2From) < tol2
        \/ Distance2(line1From, line2To) < tol2
        \/ Distance2(line1To, line2From) < tol2
        \/ Distance2(line1To, line2To) < tol2

\* the acceptance test that accepts every chord
WouldLineIntersectNever(fromPos, toPos, existingLines, circles, u) == FALSE

\* GameLevel.wouldLineIntersect
WouldLineIntersect(fromPos, toPos, existingLines, circles, u) ==
    \E k \in 1..Len(existingLines) :
        LET lineFromCircle == circles[Find(circles, existingLines[k].from)]
            lineToCircle == circles[Find(circles, existingLines[k].to)]
        IN  /\ ~LinesShareEndpoint(fromPos, toPos,
                                   lineFromCircle.position, lineToCircle.position, u)
            /\ LineSegmentsIntersect(fromPos, toPos,
                                     lineFromCircle.position, lineToCircle.position)

\* Two distances that the layout makes equal.  The layout positions carry a
\* rounding error, so two distances within three units of each other are
\* the same chord length of the polygon; the comparator distA - distB then
\* orders them by floating-point noise, in either order.
SameDistance(a, b) ==
    /\ Abs(a - b) <= 40000
    /\ (a - b) * (a - b) <= 18 * (a + b)

\* the search without the test c.id !== circle.id
FindBestTargetsWithSelf(ci, circles, connectionsPerNode, usedConnections, existingLines, u) ==
    LET circle == circles[ci]
        available == {k \in 1..Len(circles) :
                        /\ TRUE
                        /\ Len(circles[k].connections) < connectionsPerNode
                        /\ ~Includes(circle.connections, circles[k].id)}
        acceptable == {k \in available :
                        /\ ConnectionKey(circle.id, circles[k].id) \notin usedConnections
                        /\ ~WouldLineIntersect(circle.position, circles[k].position,
                                               existingLines, circles, u)}
        Dist(k) == Distance2(circle.position, circles[k].position)
    IN  {k \in acceptable :
            \A m \in acceptable : Dist(m) >= Dist(k) \/ SameDistance(Dist(m), Dist(k))}

\* the search without the test c.connections.length < connectionsPerNode
FindBestTargetsAnyDegree(ci, circles, connectionsPerNode, usedConnections, existingLines, u) ==
    LET circle == circles[ci]
        available == {k \in 1..Len(circles) :
                        /\ circles[k].id # circle.id
                        /\ ~Includes(circle.connections, circles[k].id)}
        acceptable == {k \in available :
                        /\ ConnectionKey(circle.id, circles[k].id) \notin usedConnections
                        /\ ~WouldLineIntersect(circle.position, circles[k].position,
                                               existingLines, circles, u)}
        Dist(k) == Distance2(circle.position, circles[k].position)
    IN  {k \in acceptable :
            \A m \in acceptable : Dist(m) >= Dist(k) \/ SameDistance(Dist(m), Dist(k))}

\* GameLevel.findBestNonIntersectingConnectionTarget: the indexes it can
\* return for the circle at index ci ({} stands for null).  The candidates
\* are tried nearest first, so the result is an acceptable candidate with
\* no acceptable candidate nearer; candidates at the same distance are tried
\* in an order the model leaves open.
FindBestTargets(ci, circles, connectionsPerNode, usedConnections, existingLines, u) ==
    LET circle == circles[ci]
        available == {k \in 1..Len(circles) :
                        /\ circles[k].id # circle.id
                        /\ Len(circles[k].connections) < connectionsPerNode
                        /\ ~Includes(circle.connections, circles[k].id)}
        acceptable == {k \in available :
                        /\ ConnectionKey(circle.id, circles[k].id) \notin usedConnections
                        /\ ~WouldLineIntersect(circle.position, circles[k].position,
                                               existingLines, circles, u)}
        Dist(k) == Distance2(circle.position, circles[k].position)
    IN  {k \in acceptable :
            \A m \in acceptable : Dist(m) >= Dist(k) \/ SameDistance(Dist(m), Dist(k))}

\* the unmet need max(0, 3 - degree) the priority sort orders by
Need(circle) == IF Len(circle.connections) >= 3 THEN 0 ELSE 3 - Len(circle.connections)

\* the sort by need ascending
SortByNeedAscending(order, circles) ==
    LET Having(v) == SelectSeq(order, LAMBDA k : Need(circles[k]) = v)
    IN  Having(0) \o Having(1) \o Having(2) \o Having(3)

\* nodesNeedingConnections.sort(...): stable, by need descending
SortByNeed(order, circles) ==
    LET Having(v) == SelectSeq(order, LAMBDA k : Need(circles[k]) = v)
    IN  Having(3) \o Having(2) \o Having(1) \o Having(0)

\* the connection that is pushed on the initiating circle only
AddConnectionOneSided(g, ci, ti) ==
    [g EXCEPT
        !.circles = [g.circles EXCEPT ![ci].connections = Append(@, g.circles[ti].id)],
        !.used = @ \cup {ConnectionKey(g.circles[ci].id, g.circles[ti].id)},
        !.lines = Append(@, Line(g.circles[ci].id, g.circles[ti].id, FALSE))]

\* circle.connections.push / targetCircle.connections.push / lines.push
AddConnection(g, ci, ti) ==
    [g EXCEPT
        !.circles = [g.circles EXCEPT
                        ![ci].connections = Append(@, g.circles[ti].id),
                        ![ti].connections = Append(@, g.circles[ci].id)],
        !.used = @ \cup {ConnectionKey(g.circles[ci].id, g.circles[ti].id)},
        !.lines = Append(@, Line(g.circles[ci].id, g.circles[ti].id, FALSE))]

\* the first node, in sorted order, that has fewer than three connections
\* and a target (0 when there is none)
FirstInitiator(order, circles, connectionsPerNode, usedConnections, existingLines, u) ==
    LET Can(k) == /\ Len(circles[order[k]].connections) < 3
                  /\ FindBestTargets(order[k], circles, connectionsPerNode,
                                     usedConnections, existingLines, u) # {}
    IN  IF \E k \in 1..Len(order) : Can(k)
        THEN order[CHOOSE k \in 1..Len(order) : Can(k) /\ \A m \in 1..(k - 1) : ~Can(m)]
        ELSE 0

-----------------------------------------------------------------------------
(* MathUtils.randomPositionDistributed and GameLevel.scrambleNodePositions *)

\* Math.random(): a generator of period 16 whose state r stands for the
\* value r / 16 in [0, 1)
RandNext(r) == (5 * r + 3) % 16

\* floor(a / b) for b # 0
FloorDiv(a, b) == IF b > 0 THEN a \div b ELSE (-a) \div (-b)

\* floor(sqrt(v / (margin * margin))) for v >= 0
GridCols(v, margin) ==
    CHOOSE k \in 0..64 :
        k * k * margin * margin <= v /\ v < (k + 1) * (k + 1) * margin * margin

\* the sampler that returns the top left corner of the playable area
RandomPositionCorner(maxX, maxY, margin, rng, u) ==
    [position |-> Pt(u * margin, u * margin), rng |-> RandNext(rng)]

\* MathUtils.randomPositionDistributed(maxX, maxY, margin).  A grid with no
\* column or no row has an infinite (or 0/0) cell size, and 0 * Infinity is
\* NaN; sqrt of a negative area is NaN.
RandomPositionDistributed(maxX, maxY, margin, rng, u) ==
    LET w == maxX - 2 * margin
        h == maxY - 2 * margin
        colsNaN == w * h < 0
        gridCols == IF colsNaN THEN 0 ELSE GridCols(w * h, margin)
        gridRows == FloorDiv(h, margin)
        r1 == rng
        r2 == RandNext(r1)
        r3 == RandNext(r2)
        r4 == RandNext(r3)
        col == (r1 * gridCols) \div 16
        row == (r2 * gridRows) \div 16
    IN  [position |->
            IF colsNaN \/ gridCols = 0 \/ gridRows = 0 THEN NaNPoint
            ELSE Pt(u * margin + FloorDiv((16 * col + r3) * w * u, 16 * gridCols),
                    u * margin + FloorDiv((16 * row + r4) * h * u, 16 * gridRows)),
         rng |-> RandNext(r4)]

\* The locals of the do-while loop of scrambleNodePositions as a record st:
\* st.best is <<>> for null or <<bestPosition>>, st.bestScore the squared
\* score.  ScrambleScore is the loop body after the position was drawn.
ScrambleScore(circles, ci, u, st, sample) ==
    LET others == {k \in 1..Len(circles) : circles[k].id # circles[ci].id}
        minIsNaN == \E k \in others : DistanceIsNaN(sample.position, circles[k].position)
        minDistance == CHOOSE d \in {Distance2(sample.position, circles[k].position) : k \in others} :
                          \A k \in others : d <= Distance2(sample.position, circles[k].position)
        better == ~minIsNaN /\ minDistance > st.bestScore
    IN  [rng |-> sample.rng,
         attempts |-> st.attempts + 1,
         position |-> sample.position,
         sampled |-> st.sampled \cup {sample.position},
         best |-> IF better THEN <<sample.position>> ELSE st.best,
         bestScore |-> IF better THEN minDistance ELSE st.bestScore,
         tooClose |-> \E k \in others :
                        /\ ~DistanceIsNaN(sample.position, circles[k].position)
                        /\ Distance2(sample.position, circles[k].position)
                             < (MIN_DISTANCE * u) * (MIN_DISTANCE * u)]

\* one iteration of the do-while loop for the circle at index ci
ScrambleTry(circles, ci, canvasSize, st) ==
    ScrambleScore(circles, ci, UnitsPerPixel(canvasSize), st,
                  RandomPositionDistributed(canvasSize.x, canvasSize.y, ScrambleMargin,
                                            st.rng, UnitsPerPixel(canvasSize)))

\* the loop condition with twice the number of attempts
ScrambleAgainTwice(st) == st.attempts < 2 * ScrambleMaxAttempts /\ st.tooClose

\* the loop condition: attempts < maxAttempts and the position is nearer
\* than MIN_DISTANCE to some other circle
ScrambleAgain(st) == st.attempts < ScrambleMaxAttempts /\ st.tooClose

\* up to k consecutive iterations of the do-while loop
RECURSIVE ScrambleRun(_, _, _, _, _)
ScrambleRun(circles, ci, canvasSize, st, k) ==
    LET nxt == ScrambleTry(circles, ci, canvasSize, st)
    IN  IF k > 1 /\ ScrambleAgain(nxt)
        THEN ScrambleRun(circles, ci, canvasSize, nxt, k - 1)
        ELSE nxt

\* the do-while loop, evaluated in runs of ScrambleBlock iterations
RECURSIVE ScrambleLoop(_, _, _, _)
ScrambleLoop(circles, ci, canvasSize, st) ==
    LET nxt == ScrambleRun(circles, ci, canvasSize, st, ScrambleBlock)
    IN  IF ScrambleAgain(nxt)
        THEN ScrambleLoop(circles, ci, canvasSize, nxt)
        ELSE nxt

\* the position the loop commits, bestPosition || position
ScrambleResult(end) ==
    [position |-> IF end.best = <<>> THEN end.position ELSE end.best[1],
     rng |-> end.rng,
     attempts |-> end.attempts,
     last |-> end.position,
     sampled |-> end.sampled,
     met |-> ~end.tooClose]

\* scrambleNodePositions for one circle
ScrambleCircle(circles, ci, canvasSize, rng) ==
    ScrambleResult(
        ScrambleLoop(circles, ci, canvasSize,
                     [rng |-> rng, attempts |-> 0, position |-> NaNPoint,
                      sampled |-> {}, best |-> <<>>, bestScore |-> -1, tooClose |-> FALSE]))

-----------------------------------------------------------------------------
(* GameLevel.generateSolvableLevel as a step machine.  g holds the locals  *)
(* of generateLevel; circles are addressed by index (id + 1).              *)

NoSolution == [circles |-> <<>>, lines |-> <<>>]

GenStart(levelNumber, canvasSize, seed) ==
    [pc |-> "layout", levelNumber |-> levelNumber, canvasSize |-> canvasSize,
     nodeCount |-> 0, connectionsPerNode |-> 0,
     circles |-> <<>>, lines |-> <<>>, used |-> {}, order |-> <<>>,
     attempts |-> 0, idx |-> 0, solution |-> NoSolution,
     intersectionCount |-> 0, minConnectionsError |-> FALSE,
     rng |-> seed, scrambled |-> <<>>, noisy |-> 0, ties |-> <<>>]

\* calculateLevelParameters, createNonIntersectingLayout and the start of
\* generateNonIntersectingConnections
LayoutStep(g) ==
    LET params == CalculateLevelParameters(g.levelNumber)
    IN  [g EXCEPT !.pc = "priority",
                  !.nodeCount = params.nodeCount,
                  !.connectionsPerNode = params.connectionsPerNode,
                  !.circles = CreateNonIntersectingLayout(params.nodeCount, g.canvasSize),
                  !.order = [k \in 1..params.nodeCount |-> k]]

\* The connections a search with result set targets can lead to, from the
\* circle at index ci.  Array.prototype.sort is stable, so candidates at
\* exactly the same distance stay in array order and the first of them is
\* taken; a candidate later in the array is taken when rounding noise makes
\* its distance the smaller one, which the model allows MaxNoisyTies times
\* in one generation; ties lists these (the number of lines so far and the
\* candidate taken).
Connect(g, ci, targets) ==
    LET first == CHOOSE t \in targets : \A o \in targets : t <= o
    IN  {AddConnection(g, ci, first)}
        \cup {AddConnection([g EXCEPT !.noisy = @ + 1,
                                      !.ties = Append(@, <<Len(g.lines), t>>)], ci, t) :
                t \in IF g.noisy < MaxNoisyTies THEN targets \ {first} ELSE {}}

\* one iteration of the priority loop
PrioritySteps(g) ==
    LET u == UnitsPerPixel(g.canvasSize)
        sorted == SortByNeed(g.order, g.circles)
        ini == FirstInitiator(sorted, g.circles, g.connectionsPerNode, g.used, g.lines, u)
    IN  IF g.attempts >= PriorityMaxAttempts THEN {[g EXCEPT !.pc = "final", !.idx = 1]}
        ELSE IF ini = 0 THEN {[g EXCEPT !.order = sorted, !.pc = "final", !.idx = 1]}
        ELSE Connect([g EXCEPT !.order = sorted, !.attempts = @ + 1], ini,
                     FindBestTargets(ini, g.circles, g.connectionsPerNode, g.used, g.lines, u))

\* the final pass that adds nothing
FinalStepsNone(g) == {[g EXCEPT !.pc = "capture", !.idx = Len(g.circles)]}

\* one iteration of the final pass: a connection for circle idx, or on to
\* the next circle
FinalSteps(g) ==
    LET u == UnitsPerPixel(g.canvasSize)
        targets == IF Len(g.circles[g.idx].connections) < g.connectionsPerNode
                   THEN FindBestTargets(g.idx, g.circles, g.connectionsPerNode,
                                        g.used, g.lines, u)
                   ELSE {}
    IN  IF targets # {} THEN Connect(g, g.idx, targets)
        ELSE IF g.idx < Len(g.circles) THEN {[g EXCEPT !.idx = @ + 1]}
        ELSE {[g EXCEPT !.pc = "capture"]}

\* verifySolutionNonIntersecting: the number of crossing pairs it logs
IntersectionCount(circles, lines) ==
    Cardinality({pr \in (1..Len(lines)) \X (1..Len(lines)) :
        /\ pr[1] < pr[2]
        /\ ~ShareEndpoint(lines[pr[1]], lines[pr[2]])
        /\ LineSegmentsIntersect(
              circles[Find(circles, lines[pr[1]].from)].position,
              circles[Find(circles, lines[pr[1]].to)].position,
              circles[Find(circles, lines[pr[2]].from)].position,
              circles[Find(circles, lines[pr[2]].to)].position)})

\* the snapshot that copies the circles and leaves the lines out
CaptureStepCirclesOnly(g, seed) ==
    [g EXCEPT !.pc = "scramble", !.idx = 1, !.rng = seed,
              !.solution = [circles |-> g.circles, lines |-> <<>>],
              !.intersectionCount = IntersectionCount(g.circles, g.lines)]

\* the solution snapshot and its verification; seed is the state of
\* Math.random() when the scrambling starts
CaptureStep(g, seed) ==
    [g EXCEPT !.pc = "scramble", !.idx = 1, !.rng = seed,
              !.solution = [circles |-> g.circles, lines |-> g.lines],
              !.intersectionCount = IntersectionCount(g.circles, g.lines)]

\* the commit on a circle whose position object the snapshot shares
ScrambleCommitShared(g, r) ==
    [g EXCEPT !.circles[g.idx].position = r.position,
              !.solution.circles[g.idx].position = r.position,
              !.rng = r.rng,
              !.scrambled = Append(@, [attempts |-> r.attempts, last |-> r.last, met |-> r.met,
                                       sampled |-> r.sampled]),
              !.idx = @ + 1,
              !.pc = IF g.idx < Len(g.circles) THEN "scramble" ELSE "check"]

\* scrambleNodePositions for circle idx
ScrambleCommit(g, r) ==
    [g EXCEPT !.circles[g.idx].position = r.position,
              !.rng = r.rng,
              !.scrambled = Append(@, [attempts |-> r.attempts, last |-> r.last, met |-> r.met,
                                       sampled |-> r.sampled]),
              !.idx = @ + 1,
              !.pc = IF g.idx < Len(g.circles) THEN "scramble" ELSE "check"]

ScrambleStep(g) ==
    ScrambleCommit(g, ScrambleCircle(g.circles, g.idx, g.canvasSize, g.rng))

\* the variant that raises where the code only logs
ReturnStepRaising(g) ==
    IF \/ g.intersectionCount > 0
       \/ \E k \in 1..Len(g.circles) : Len(g.circles[k].connections) < 3
    THEN [g EXCEPT !.pc = "raised"]
    ELSE [g EXCEPT !.pc = "done", !.minConnectionsError = FALSE]

\* the minimum-degree diagnostic and the return
ReturnStep(g) ==
    [g EXCEPT !.pc = "done",
              !.minConnectionsError =
                  \E k \in 1..Len(g.circles) : Len(g.circles[k].connections) < 3]

-----------------------------------------------------------------------------
(* The generator on its own: generateLevel(levelNumber, canvasSize) without *)
(* a stored configuration, one step at a time.                              *)

GenCanvases == {[x |-> 800, y |-> 600], [x |-> 201, y |-> 201]}

RandSeeds == {0, 9}

GenIdle == [pc |-> "off"]

\* no Game object has been constructed
GameIdle == [constructed |-> FALSE]

\* no InputManager and no AutoUpdateManager constructed
PageIdle == [constructed |-> FALSE]

GenInit ==
    /\ \E l \in 1..MaxLevel, c \in GenCanvases : gen = GenStart(l, c, 0)
    /\ dCircles = <<>>
    /\ dLines = <<>>
    /\ dCalls = 0
    /\ dFirst = <<>>
    /\ dBefore = <<>>
    /\ dMoves = 0
    /\ dThrew = FALSE
    /\ game = GameIdle
    /\ page = PageIdle

GenLayout ==
    /\ gen.pc = "layout"
    /\ gen' = LayoutStep(gen)
    /\ UNCHANGED <<detVars, game, page>>

GenPriority ==
    /\ gen.pc = "priority"
    /\ gen' \in PrioritySteps(gen)
    /\ UNCHANGED <<detVars, game, page>>

GenFinal ==
    /\ gen.pc = "final"
    /\ gen' \in FinalSteps(gen)
    /\ UNCHANGED <<detVars, game, page>>

GenCapture ==
    /\ gen.pc = "capture"
    /\ \E seed \in RandSeeds : gen' = CaptureStep(gen, seed)
    /\ UNCHANGED <<detVars, game, page>>

GenScramble ==
    /\ gen.pc = "scramble"
    /\ gen' = ScrambleStep(gen)
    /\ UNCHANGED <<detVars, game, page>>

GenReturn ==
    /\ gen.pc = "check"
    /\ gen' = ReturnStep(gen)
    /\ UNCHANGED <<detVars, game, page>>

GenNext == GenLayout \/ GenPriority \/ GenFinal \/ GenCapture \/ GenScramble \/ GenReturn

SpecGen == GenInit /\ [][GenNext]_vars

-----------------------------------------------------------------------------
(* Harness of the intersection engine: four nodes, starting on the square  *)
(* of the example scenario, edge lists that are subsequences of the six    *)
(* edges on them, and single-node moves over a small set of positions.     *)

DPoints == {Pt(0, 0), Pt(100, 0), Pt(100, 100), Pt(0, 100), Pt(50, 50)}

DEdges == << <<0, 1>>, <<1, 2>>, <<2, 3>>, <<3, 0>>, <<0, 2>>, <<1, 3>> >>

SquareCircles ==
    << Circle(0, Pt(0, 0), <<>>), Circle(1, Pt(100, 0), <<>>),
       Circle(2, Pt(100, 100), <<>>), Circle(3, Pt(0, 100), <<>>) >>

\* position of edge <<f, t>> in DEdges
EdgeIndex(f, t) == CHOOSE k \in 1..Len(DEdges) : DEdges[k] = <<f, t>>

DetInit ==
    /\ dCircles = SquareCircles
    /\ dLines = <<>>
    /\ dCalls = 0
    /\ dFirst = <<>>
    /\ dBefore = <<>>
    /\ dMoves = 0
    /\ dThrew = FALSE
    /\ gen = GenIdle
    /\ game = GameIdle
    /\ page = PageIdle

\* the caller appends an edge (new edges are created unflagged)
DetAddLine ==
    \E k \in 1..Len(DEdges) :
        /\ Len(dLines) < MaxLines
        /\ \A m \in 1..Len(dLines) : EdgeIndex(dLines[m].from, dLines[m].to) < k
        /\ dLines' = Append(dLines, Line(DEdges[k][1], DEdges[k][2], FALSE))
        /\ dCalls' = 0
        /\ dFirst' = <<>>
        /\ dBefore' = <<>>
        /\ UNCHANGED <<dCircles, dMoves, dThrew, gen, game, page>>

\* the caller changes one node's position; the flags are now stale
DetMove ==
    \E i \in 1..Len(dCircles), p \in DPoints :
        /\ dMoves < MaxMoves
        /\ p # dCircles[i].position
        /\ dCircles' = [dCircles EXCEPT ![i].position = p]
        /\ dMoves' = dMoves + 1
        /\ dCalls' = 0
        /\ dFirst' = <<>>
        /\ dBefore' = <<>>
        /\ UNCHANGED <<dLines, dThrew, gen, game, page>>

\* IntersectionDetector.updateIntersections(dCircles, dLines)
DetUpdate ==
    LET r == UpdateIntersections(dCircles, dLines)
    IN  /\ dCalls < 2
        /\ dLines' = r.lines
        /\ dThrew' = r.threw
        /\ dCalls' = dCalls + 1
        /\ dFirst' = IF dCalls = 0 THEN r.lines ELSE dFirst
        /\ dBefore' = IF dCalls = 0 THEN dLines ELSE dBefore
        /\ UNCHANGED <<dCircles, dMoves, gen, game, page>>

\* the caller passes a node list that lacks one node of the edge list (a
\* stale edge list against a new node list)
DetDropCircle ==
    \E i \in 1..Len(dCircles) :
        /\ Len(dCircles) = Len(SquareCircles)
        /\ dCircles' = SubSeq(dCircles, 1, i - 1) \o SubSeq(dCircles, i + 1, Len(dCircles))
        /\ dCalls' = 0
        /\ dFirst' = <<>>
        /\ dBefore' = <<>>
        /\ UNCHANGED <<dLines, dMoves, dThrew, gen, game, page>>

DetNext == DetAddLine \/ DetMove \/ DetUpdate \/ DetDropCircle

SpecDetect == DetInit /\ [][DetNext]_vars

Spec == SpecDetect

-----------------------------------------------------------------------------
(* Objects and references.  An array of circles is held as the circle      *)
(* values in items together with the identities of the objects behind     *)
(* them: arr names the array, objs its Circle objects, pts their position *)
(* objects and conns their connections arrays.  Two arrays with the same  *)
(* identity in a component share those objects, and a write through one   *)
(* is seen through the other.  Identity 0 is that of an empty array.      *)

MaxGameLevel == 2
MaxDrags == 1
MaxEvents == 2
MaxTimers == 1

EmptyCircles == [arr |-> 0, objs |-> 0, pts |-> 0, conns |-> 0, items |-> <<>>]

EmptyLines == [arr |-> 0, objs |-> 0, items |-> <<>>]

\* an array of newly created circles / lines with identity t
NewCircles(items, t) == [arr |-> t, objs |-> t, pts |-> t, conns |-> t, items |-> items]

NewLines(items, t) == [arr |-> t, objs |-> t, items |-> items]

\* solution?: { circles, lines } and null / undefined
Solution(circles, lines) == [isNull |-> FALSE, circles |-> circles, lines |-> lines]

Null == [isNull |-> TRUE, circles |-> EmptyCircles, lines |-> EmptyLines]

\* LevelConfig and the undefined that Map.get returns for a missing key
NoConfig ==
    [isUndefined |-> TRUE, circles |-> EmptyCircles, lines |-> EmptyLines,
     levelNumber |-> 0, canvasSize |-> [x |-> 0, y |-> 0], solution |-> Null]

LevelConfig(circles, lines, levelNumber, canvasSize, solution) ==
    [isUndefined |-> FALSE, circles |-> circles, lines |-> lines,
     levelNumber |-> levelNumber, canvasSize |-> canvasSize, solution |-> solution]

\* the copy that spreads each circle and shares its position and connections
DeepCopyCirclesShallow(circles, t) ==
    [arr |-> t, objs |-> t, pts |-> circles.pts, conns |-> circles.conns,
     items |-> circles.items]

\* GameLevel.deepCopyCircles: a new array of new circles, each with a new
\* position object and a new connections array
DeepCopyCircles(circles, t) == NewCircles(circles.items, t)

\* GameLevel.deepCopyLines
DeepCopyLines(lines, t) == NewLines(lines.items, t)

\* the copy of Game that keeps the position objects of the original
GameDeepCopyCirclesSharingPositions(circles, t) ==
    [arr |-> t, objs |-> t, pts |-> circles.pts, conns |-> t, items |-> circles.items]

\* Game.deepCopyCircles and Game.deepCopyLines
GameDeepCopyCircles(circles, t) == NewCircles(circles.items, t)

GameDeepCopyLines(lines, t) == NewLines(lines.items, t)

-----------------------------------------------------------------------------
(* GameLevel.generateLevel as one call *)

GameLevels == 1..MaxGameLevel

\* the sizes the container can have (all of the same resolution); the last
\* is narrower than a circle is wide
GameCanvases == {[x |-> 800, y |-> 600], [x |-> 600, y |-> 800], [x |-> 40, y |-> 600]}

\* the size of the container when the page is first loaded
InitialCanvas == [x |-> 800, y |-> 600]

\* the steps generateSolvableLevel can take from g
GenSteps(g) ==
    CASE g.pc = "layout" -> {LayoutStep(g)}
      [] g.pc = "priority" -> PrioritySteps(g)
      [] g.pc = "final" -> FinalSteps(g)
      [] g.pc = "capture" -> {CaptureStep(g, seed) : seed \in RandSeeds}
      [] g.pc = "scramble" -> {ScrambleStep(g)}
      [] g.pc = "check" -> {ReturnStep(g)}
      [] OTHER -> {g}

\* generateSolvableLevel run to its return from each of the states in S
RECURSIVE GenRun(_)
GenRun(S) ==
    LET nxt == UNION {GenSteps(g) : g \in S}
    IN  IF \A g \in nxt : g.pc = "done" THEN nxt ELSE GenRun(nxt)

\* the levels generateLevel can generate, for every level number and canvas
GeneratedLevels ==
    UNION {GenRun({GenStart(l, c, 0)}) : l \in GameLevels, c \in GameCanvases}

LevelsOf(levelNumber, canvasSize) ==
    {g \in GeneratedLevels : g.levelNumber = levelNumber /\ g.canvasSize = canvasSize}

\* Rounding is a function of the operands: every run of the program for
\* the same level and canvas resolves its ties the same way.  rounding is
\* the list of ties that are resolved out of array order; where a level has
\* no such ties, none is.
TiedAs(levels, rounding) == {g \in levels : g.ties = rounding}

RoundedAs(levels, rounding) ==
    IF TiedAs(levels, rounding) = {} THEN TiedAs(levels, <<>>)
    ELSE TiedAs(levels, rounding)

LevelsFor(levelNumber, canvasSize, rounding) ==
    RoundedAs(LevelsOf(levelNumber, canvasSize), rounding)

Roundings == {g.ties : g \in GeneratedLevels}

\* the result of generateSolvableLevel as new objects with identities t
FreshLevel(g, t) ==
    [circles |-> NewCircles(g.circles, t[1]),
     lines |-> NewLines(g.lines, t[2]),
     solution |-> Solution(NewCircles(g.solution.circles, t[3]),
                           NewLines(g.solution.lines, t[4]))]

\* the stored configuration is used: it is there, for this level and for
\* this canvas size
MatchesNever(storedConfig, levelNumber, canvasSize) == FALSE

\* the test that compares the level number only
MatchesLevelOnly(storedConfig, levelNumber, canvasSize) ==
    /\ ~storedConfig.isUndefined
    /\ storedConfig.levelNumber = levelNumber

Matches(storedConfig, levelNumber, canvasSize) ==
    /\ ~storedConfig.isUndefined
    /\ storedConfig.levelNumber = levelNumber
    /\ storedConfig.canvasSize.x = canvasSize.x
    /\ storedConfig.canvasSize.y = canvasSize.y

\* GameLevel.generateLevel(levelNumber, canvasSize, storedConfig): the
\* results it can return, built from new objects with identities t
GenerateLevel(levelNumber, canvasSize, storedConfig, rounding, t) ==
    IF Matches(storedConfig, levelNumber, canvasSize)
    THEN {[circles |-> DeepCopyCircles(storedConfig.circles, t[1]),
           lines |-> DeepCopyLines(storedConfig.lines, t[2]),
           solution |-> IF storedConfig.solution.isNull THEN Null
                        ELSE Solution(DeepCopyCircles(storedConfig.solution.circles, t[3]),
                                      DeepCopyLines(storedConfig.solution.lines, t[4]))]}
    ELSE {FreshLevel(g, t) : g \in LevelsFor(levelNumber, canvasSize, rounding)}

-----------------------------------------------------------------------------
(* The Game object.  game.gameState, game.currentSolution are the fields   *)
(* of Game; game.congratulations is the class show of the congratulations *)
(* element; game.localStorage holds the two keys the game writes;          *)
(* game.inputDragged is InputManager.draggedCircleId (-1 for null);        *)
(* game.hist is the history the properties refer to.                       *)

\* localStorage 'untangle-game-state' absent
NoSaved ==
    [isNull |-> TRUE, circles |-> <<>>, lines |-> <<>>, currentLevel |-> 0,
     isCompleted |-> FALSE]

\* nothing generated so far for a level
NoGenerated == [isNone |-> TRUE, canvasSize |-> [x |-> 0, y |-> 0],
                circles |-> <<>>, lines |-> <<>>]

\* generateLevel not called so far
NoReturn ==
    [called |-> FALSE, levelNumber |-> 0, canvasSize |-> [x |-> 0, y |-> 0],
     storedConfig |-> NoConfig, level |-> [circles |-> EmptyCircles,
                                           lines |-> EmptyLines, solution |-> Null]]

NoHist(drags, events) ==
    [generated |-> [l \in GameLevels |-> NoGenerated],
     stored |-> [l \in GameLevels |-> NoConfig],
     returned |-> NoReturn,
     solution |-> Null,
     own |-> [circles |-> <<>>, lines |-> <<>>],
     revealed |-> FALSE,
     last |-> "constructor",
     movedSinceGenerated |-> FALSE,
     movedSinceReturn |-> FALSE,
     drags |-> drags,
     events |-> events]

\* the arrays of circles and of lines the program holds
CircleRoots(gm) ==
    {gm.gameState.circles, gm.currentSolution.circles}
    \cup {gm.timers[k].circles : k \in 1..Len(gm.timers)}
    \cup {gm.gameState.levelConfigs[l].circles : l \in GameLevels}
    \cup {gm.gameState.levelConfigs[l].solution.circles : l \in GameLevels}

LineRoots(gm) ==
    {gm.gameState.lines, gm.currentSolution.lines}
    \cup {gm.timers[k].lines : k \in 1..Len(gm.timers)}
    \cup {gm.gameState.levelConfigs[l].lines : l \in GameLevels}
    \cup {gm.gameState.levelConfigs[l].solution.lines : l \in GameLevels}

\* the identities of the objects reachable from the program
IdentitiesOfCircles(c) == {c.arr, c.objs, c.pts, c.conns}

IdentitiesOfLines(l) == {l.arr, l.objs}

UsedIdentities(gm) ==
    UNION {IdentitiesOfCircles(c) : c \in CircleRoots(gm)}
    \cup UNION {IdentitiesOfLines(l) : l \in LineRoots(gm)}

IdentityLimit == 4 * MaxGameLevel + 2 * MaxTimers + 8

\* the identities of the next four allocations: the smallest ones no
\* reachable object has
FreshOf(free) ==
    [i \in 1..4 |-> CHOOSE t \in free : Cardinality({s \in free : s < t}) = i - 1]

Fresh(gm) == FreshOf((1..IdentityLimit) \ UsedIdentities(gm))

\* circle.position.x = ...; circle.position.y = ... on the position object
\* of the k-th circle, as an array c of circles shows it: written if the
\* positions of c have identity pts
PositionWritten(c, pts, k, position) ==
    IF c.pts = pts /\ k <= Len(c.items)
    THEN [c EXCEPT !.items[k].position = position]
    ELSE c

\* the write as every array of circles the program holds shows it
WritePosition(gm, pts, k, position) ==
    [gm EXCEPT
        !.gameState.circles = PositionWritten(@, pts, k, position),
        !.currentSolution.circles = PositionWritten(@, pts, k, position),
        !.timers = [n \in 1..Len(gm.timers) |->
                        [gm.timers[n] EXCEPT !.circles = PositionWritten(@, pts, k, position)]],
        !.gameState.levelConfigs =
            [l \in GameLevels |->
                [gm.gameState.levelConfigs[l] EXCEPT
                    !.circles = PositionWritten(@, pts, k, position),
                    !.solution.circles = PositionWritten(@, pts, k, position)]]]

\* circle.isDragging = v on the k-th Circle object of identity objs
IsDraggingWritten(c, objs, k, v) ==
    IF c.objs = objs /\ k <= Len(c.items)
    THEN [c EXCEPT !.items[k].isDragging = v]
    ELSE c

WriteIsDragging(gm, objs, k, v) ==
    [gm EXCEPT
        !.gameState.circles = IsDraggingWritten(@, objs, k, v),
        !.currentSolution.circles = IsDraggingWritten(@, objs, k, v),
        !.timers = [n \in 1..Len(gm.timers) |->
                        [gm.timers[n] EXCEPT !.circles = IsDraggingWritten(@, objs, k, v)]],
        !.gameState.levelConfigs =
            [l \in GameLevels |->
                [gm.gameState.levelConfigs[l] EXCEPT
                    !.circles = IsDraggingWritten(@, objs, k, v),
                    !.solution.circles = IsDraggingWritten(@, objs, k, v)]]]

\* line.isIntersecting = ... on the Line objects of identity objs
LinesWritten(l, objs, items) ==
    IF l.objs = objs /\ Len(l.items) = Len(items)
    THEN [l EXCEPT !.items = items]
    ELSE l

WriteLines(gm, objs, items) ==
    [gm EXCEPT
        !.gameState.lines = LinesWritten(@, objs, items),
        !.currentSolution.lines = LinesWritten(@, objs, items),
        !.timers = [n \in 1..Len(gm.timers) |->
                        [gm.timers[n] EXCEPT !.lines = LinesWritten(@, objs, items)]],
        !.gameState.levelConfigs =
            [l \in GameLevels |->
                [gm.gameState.levelConfigs[l] EXCEPT
                    !.lines = LinesWritten(@, objs, items),
                    !.solution.lines = LinesWritten(@, objs, items)]]]

\* the handler that leaves the detector out
RunDetectorSkipped(gm) == gm

\* IntersectionDetector.updateIntersections(gameState.circles, gameState.lines)
RunDetector(gm) ==
    WriteLines(gm, gm.gameState.lines.objs,
               UpdateIntersections(gm.gameState.circles.items,
                                   gm.gameState.lines.items).lines)

\* levelConfigs.get(levelNumber)
GetConfig(gm, levelNumber) ==
    IF levelNumber \in GameLevels THEN gm.gameState.levelConfigs[levelNumber]
    ELSE NoConfig

\* history: the configuration as storeLevelConfig stored it
RecordStored(gm, levelNumber) ==
    [gm EXCEPT !.hist.stored[levelNumber] = gm.gameState.levelConfigs[levelNumber]]

\* Game.storeLevelConfig, its four copies made of new objects t
StoreLevelConfigAs(gm, levelNumber, circles, lines, solution, t) ==
    RecordStored(
        [gm EXCEPT !.gameState.levelConfigs[levelNumber] =
            LevelConfig(GameDeepCopyCircles(circles, t[1]),
                        GameDeepCopyLines(lines, t[2]),
                        levelNumber,
                        gm.gameState.canvasSize,
                        IF solution.isNull THEN Null
                        ELSE Solution(GameDeepCopyCircles(solution.circles, t[3]),
                                      GameDeepCopyLines(solution.lines, t[4])))],
        levelNumber)

StoreLevelConfig(gm, levelNumber, circles, lines, solution) ==
    StoreLevelConfigAs(gm, levelNumber, circles, lines, solution, Fresh(gm))

\* history: what generateLevel was given and what it returned; the first
\* level generated for a level number since the game started
RecordReturn(gm, level, storedConfig) ==
    [gm EXCEPT
        !.hist.returned =
            [called |-> TRUE, levelNumber |-> gm.gameState.currentLevel,
             canvasSize |-> gm.gameState.canvasSize,
             storedConfig |-> storedConfig, level |-> level],
        !.hist.movedSinceReturn = FALSE,
        !.hist.movedSinceGenerated =
            IF gm.hist.generated[gm.gameState.currentLevel].isNone THEN FALSE ELSE @,
        !.hist.generated[gm.gameState.currentLevel] =
            IF @.isNone
            THEN [isNone |-> FALSE, canvasSize |-> gm.gameState.canvasSize,
                  circles |-> level.circles.items, lines |-> level.lines.items]
            ELSE @]

\* gameState.circles = level.circles; gameState.lines = level.lines;
\* currentSolution = level.solution || null
UseLevel(gm, level) ==
    [gm EXCEPT !.gameState.circles = level.circles,
               !.gameState.lines = level.lines,
               !.currentSolution = level.solution,
               !.hist.solution = level.solution,
               !.hist.own = [circles |-> level.circles.items, lines |-> level.lines.items],
               !.hist.revealed = FALSE]

\* const level = GameLevel.generateLevel(currentLevel, canvasSize,
\* storedConfig) and the three assignments that follow it
GenerateAndUse(gm, storedConfig) ==
    {RecordReturn(UseLevel(gm, level), level, storedConfig) :
        level \in GenerateLevel(gm.gameState.currentLevel, gm.gameState.canvasSize,
                                storedConfig, gm.rounding, Fresh(gm))}

-----------------------------------------------------------------------------
(* The handlers of Game *)

\* Game.loadGameState; the parsed arrays are new objects t
LoadGameState(gm, t) ==
    IF /\ ~gm.localStorage.state.isNull
       /\ gm.localStorage.state.currentLevel = gm.gameState.currentLevel
    THEN [gm EXCEPT
            !.gameState.circles = NewCircles(gm.localStorage.state.circles, t[1]),
            !.gameState.lines = NewLines(gm.localStorage.state.lines, t[2]),
            !.gameState.isCompleted = gm.localStorage.state.isCompleted]
    ELSE [gm EXCEPT
            !.gameState.circles = EmptyCircles,
            !.gameState.lines = EmptyLines,
            !.gameState.isCompleted = FALSE]

\* initializeGame: storeLevelConfig if the level did not come with a
\* stored configuration (level.circles, level.lines and level.solution are
\* what gameState.circles, gameState.lines and currentSolution now refer to)
StoreIfNew(gm, storedConfig) ==
    IF storedConfig.isUndefined
    THEN StoreLevelConfig(gm, gm.gameState.currentLevel, gm.gameState.circles,
                          gm.gameState.lines, gm.currentSolution)
    ELSE gm

\* initializeGame that takes the loaded arrays as they are
InitializeLoadedAsLoaded(gm) ==
    {RunDetector([gm EXCEPT
                    !.currentSolution = GetConfig(gm, gm.gameState.currentLevel).solution,
                    !.hist.solution = GetConfig(gm, gm.gameState.currentLevel).solution])}

\* initializeGame after loadGameState
InitializeLoaded(gm) ==
    IF Len(gm.gameState.circles.items) = 0
    THEN {RunDetector(StoreIfNew(g2, GetConfig(gm, gm.gameState.currentLevel))) :
            g2 \in GenerateAndUse(gm, GetConfig(gm, gm.gameState.currentLevel))}
    ELSE {RunDetector([gm EXCEPT
                        !.currentSolution = GetConfig(gm, gm.gameState.currentLevel).solution,
                        !.hist.solution = GetConfig(gm, gm.gameState.currentLevel).solution,
                        !.hist.own = [circles |-> gm.gameState.circles.items,
                                      lines |-> gm.gameState.lines.items],
                        !.hist.revealed = FALSE])}

\* Game.initializeGame
InitializeGame(gm) ==
    InitializeLoaded(LoadGameState([gm EXCEPT !.gameState.isCompleted = FALSE,
                                              !.congratulations = FALSE], Fresh(gm)))

\* restartLevel after the saved state, the completion flag and the arrays
\* were cleared
RestartCleared(gm) ==
    {RunDetector(StoreIfNew(g2, GetConfig(gm, gm.gameState.currentLevel))) :
        g2 \in GenerateAndUse(gm, GetConfig(gm, gm.gameState.currentLevel))}

\* Game.restartLevel
RestartLevel(gm) ==
    RestartCleared([gm EXCEPT !.localStorage.state = NoSaved,
                              !.gameState.isCompleted = FALSE,
                              !.congratulations = FALSE,
                              !.gameState.circles = EmptyCircles,
                              !.gameState.lines = EmptyLines])

\* Game.nextLevel
NextLevel(gm) ==
    InitializeGame([gm EXCEPT !.gameState.currentLevel = @ + 1,
                              !.localStorage.level = gm.gameState.currentLevel + 1])

\* Game.startNewGame
StartNewGame(gm) ==
    InitializeGame([gm EXCEPT !.gameState.currentLevel = 1,
                              !.gameState.levelConfigs = [l \in GameLevels |-> NoConfig],
                              !.gameState.circles = EmptyCircles,
                              !.gameState.lines = EmptyLines,
                              !.gameState.isCompleted = FALSE,
                              !.localStorage.state = NoSaved,
                              !.localStorage.level = 1,
                              !.hist.generated = [l \in GameLevels |-> NoGenerated],
                              !.hist.stored = [l \in GameLevels |-> NoConfig]])

\* showSolution after its guard: the two copies kept for the timer, the
\* solution applied as two more copies, and the detector run
SolutionShown(gm, t) ==
    RunDetector(
        [gm EXCEPT
            !.timers = Append(@, [circles |-> GameDeepCopyCircles(gm.gameState.circles, t[1]),
                                  lines |-> GameDeepCopyLines(gm.gameState.lines, t[2])]),
            !.gameState.circles = GameDeepCopyCircles(gm.currentSolution.circles, t[3]),
            !.gameState.lines = GameDeepCopyLines(gm.currentSolution.lines, t[4]),
            !.hist.revealed = TRUE])

\* Game.showSolution
ShowSolution(gm) ==
    IF gm.currentSolution.isNull THEN gm
    ELSE SolutionShown(gm, Fresh(gm))

\* the setTimeout callback of showSolution, for the timer set first
RestoreOriginal(gm) ==
    RunDetector([gm EXCEPT !.gameState.circles = Head(gm.timers).circles,
                           !.gameState.lines = Head(gm.timers).lines,
                           !.timers = Tail(@),
                           !.hist.revealed = FALSE])

\* resizeCanvas
ResizeCanvas(gm, size) == [gm EXCEPT !.gameState.canvasSize = size]

\* the clamp without its upper limit
ClampFromBelow(value, min, max) == Max2(value, min)

\* MathUtils.clamp
Clamp(value, min, max) == Min2(Max2(value, min), max)

\* Game.checkForCompletion
CheckForCompletion(gm) ==
    IF gm.gameState.isCompleted THEN gm
    ELSE IF \E k \in 1..Len(gm.gameState.lines.items) :
                gm.gameState.lines.items[k].isIntersecting
    THEN gm
    ELSE [gm EXCEPT !.gameState.isCompleted = TRUE, !.congratulations = TRUE]

\* JSON.stringify writes a NaN coordinate as null, and arithmetic on the
\* parsed null reads it as 0
JsonPoint(p) == IF p.nan THEN Pt(0, 0) ELSE p

\* Game.saveGameState
SaveGameState(gm) ==
    [gm EXCEPT
        !.localStorage.level = gm.gameState.currentLevel,
        !.localStorage.state =
            [isNull |-> FALSE,
             circles |-> [k \in 1..Len(gm.gameState.circles.items) |->
                            [gm.gameState.circles.items[k] EXCEPT
                                !.position = JsonPoint(@), !.isDragging = FALSE]],
             lines |-> gm.gameState.lines.items,
             currentLevel |-> gm.gameState.currentLevel,
             isCompleted |-> gm.gameState.isCompleted]]

\* Game.onCircleDragStart; k is the index circles.find gives (0: undefined)
DragStartAt(gm, circleId, k) ==
    IF k = 0 THEN gm
    ELSE [WriteIsDragging(gm, gm.gameState.circles.objs, k, TRUE)
            EXCEPT !.gameState.draggedCircleId = circleId]

OnCircleDragStart(gm, circleId, position) ==
    DragStartAt(gm, circleId, Find(gm.gameState.circles.items, circleId))

\* the drag that moves the circle after the dragged one along with it
DragAtWithNext(gm, position, k, u) ==
    IF k = 0 THEN gm
    ELSE RunDetector(
            WritePosition(
                WritePosition(gm, gm.gameState.circles.pts, k,
                    Pt(Clamp(position.x, u * gm.gameState.circles.items[k].radius,
                             u * gm.gameState.canvasSize.x
                                - u * gm.gameState.circles.items[k].radius),
                       Clamp(position.y, u * gm.gameState.circles.items[k].radius,
                             u * gm.gameState.canvasSize.y
                                - u * gm.gameState.circles.items[k].radius))),
                gm.gameState.circles.pts, k + 1, position))

\* Game.onCircleDrag; position is in model units
DragAt(gm, position, k, u) ==
    IF k = 0 THEN gm
    ELSE RunDetector(
            WritePosition(gm, gm.gameState.circles.pts, k,
                Pt(Clamp(position.x, u * gm.gameState.circles.items[k].radius,
                         u * gm.gameState.canvasSize.x
                            - u * gm.gameState.circles.items[k].radius),
                   Clamp(position.y, u * gm.gameState.circles.items[k].radius,
                         u * gm.gameState.canvasSize.y
                            - u * gm.gameState.circles.items[k].radius))))

OnCircleDrag(gm, circleId, position) ==
    DragAt(gm, position, Find(gm.gameState.circles.items, circleId),
           UnitsPerPixel(gm.gameState.canvasSize))

\* Game.onCircleDragEnd
DragEndAt(gm, k) ==
    IF k = 0 THEN gm
    ELSE SaveGameState(CheckForCompletion(
            [WriteIsDragging(gm, gm.gameState.circles.objs, k, FALSE)
                EXCEPT !.gameState.draggedCircleId = -1]))

OnCircleDragEnd(gm, circleId) ==
    DragEndAt(gm, Find(gm.gameState.circles.items, circleId))

-----------------------------------------------------------------------------
(* InputManager *)

DragIds == {0}

\* the pointer positions of a move, in pixels
DragTargets == {[x |-> 100, y |-> 100], [x |-> 790, y |-> 300]}

\* MathUtils.pointInCircle, radius in model units
PointInCircle(point, circleCenter, radius) ==
    /\ ~DistanceIsNaN(point, circleCenter)
    /\ Distance2(point, circleCenter) <= radius * radius

\* findCircleAtPosition as updateCircleHitTest installs it: the id of the
\* first circle that contains the position, -1 for null.  Every handler
\* that replaces gameState.circles passes the new array to
\* updateCircleHitTest, so the circles tested are those of gameState.
FindCircleAtPosition(circles, position, u) ==
    IF \E k \in 1..Len(circles) :
          PointInCircle(position, circles[k].position, u * circles[k].radius)
    THEN circles[CHOOSE k \in 1..Len(circles) :
            /\ PointInCircle(position, circles[k].position, u * circles[k].radius)
            /\ \A m \in 1..(k - 1) :
                  ~PointInCircle(position, circles[m].position, u * circles[m].radius)].id
    ELSE -1

\* InputManager.handlePointerDown with the circle found
PointerDownOn(gm, circleId, position) ==
    IF circleId = -1 THEN gm
    ELSE OnCircleDragStart([gm EXCEPT !.inputDragged = circleId], circleId, position)

PointerDown(gm, position) ==
    PointerDownOn(gm,
                  FindCircleAtPosition(gm.gameState.circles.items, position,
                                       UnitsPerPixel(gm.gameState.canvasSize)),
                  position)

\* InputManager.handlePointerMove
PointerMove(gm, position) ==
    IF gm.inputDragged = -1 THEN gm
    ELSE OnCircleDrag(gm, gm.inputDragged, position)

\* InputManager.handlePointerUp
PointerUp(gm) ==
    IF gm.inputDragged = -1 THEN gm
    ELSE [OnCircleDragEnd(gm, gm.inputDragged) EXCEPT !.inputDragged = -1]

-----------------------------------------------------------------------------
(* The game: construction and the events it handles *)

\* localStorage without the keys of the game
EmptyStorage == [level |-> 0, state |-> NoSaved]

\* the constructor up to setupCanvas: loadSavedLevel, an empty gameState and
\* the canvas size of the container
NewGame(storage, canvasSize, rounding, drags, events) ==
    [constructed |-> TRUE,
     rounding |-> rounding,
     gameState |-> [circles |-> EmptyCircles, lines |-> EmptyLines,
                    draggedCircleId |-> -1, canvasSize |-> canvasSize,
                    currentLevel |-> IF storage.level = 0 THEN 1 ELSE storage.level,
                    isCompleted |-> FALSE,
                    levelConfigs |-> [l \in GameLevels |-> NoConfig]],
     currentSolution |-> Null,
     congratulations |-> FALSE,
     localStorage |-> storage,
     inputDragged |-> -1,
     timers |-> <<>>,
     hist |-> NoHist(drags, events)]

\* new Game(canvas)
Construct(storage, canvasSize, rounding, drags, events) ==
    InitializeGame(NewGame(storage, canvasSize, rounding, drags, events))

\* history: the arrangement the player has made of the level, which the
\* drags change while no solution is shown
Moved(gm) ==
    [gm EXCEPT !.hist.movedSinceGenerated = TRUE,
               !.hist.movedSinceReturn = TRUE,
               !.hist.own.circles = IF gm.hist.revealed THEN @
                                    ELSE gm.gameState.circles.items]

\* history: the handler that ran last, the number of clicks and of pages
\* loaded after the first
Did(gm, handler) == [gm EXCEPT !.hist.last = handler]

DidEvent(gm, handler) == [gm EXCEPT !.hist.last = handler, !.hist.events = @ + 1]

GameInit ==
    /\ \E r \in Roundings : game \in Construct(EmptyStorage, InitialCanvas, r, 0, 0)
    /\ gen = GenIdle
    /\ dCircles = <<>>
    /\ dLines = <<>>
    /\ dCalls = 0
    /\ dFirst = <<>>
    /\ dBefore = <<>>
    /\ dMoves = 0
    /\ dThrew = FALSE
    /\ page = PageIdle

\* the page is loaded again: a new Game over the same localStorage
GameReload ==
    /\ game.hist.events < MaxEvents
    /\ game' \in Construct(game.localStorage, game.gameState.canvasSize, game.rounding,
                           game.hist.drags, game.hist.events + 1)
    /\ UNCHANGED <<detVars, gen, page>>

GameResize ==
    /\ game.hist.events < MaxEvents
    /\ \E c \in GameCanvases :
          /\ c # game.gameState.canvasSize
          /\ game' = DidEvent(ResizeCanvas(game, c), "resizeCanvas")
    /\ UNCHANGED <<detVars, gen, page>>

\* pointer down on the centre of a circle
GamePointerDown ==
    /\ game.inputDragged = -1
    /\ game.hist.drags < MaxDrags
    /\ \E k \in 1..Len(game.gameState.circles.items) :
          /\ game.gameState.circles.items[k].id \in DragIds
          /\ ~game.gameState.circles.items[k].position.nan
          /\ game' = [Did(PointerDown(game, game.gameState.circles.items[k].position),
                          "onCircleDragStart")
                        EXCEPT !.hist.drags = @ + 1]
    /\ UNCHANGED <<detVars, gen, page>>

GamePointerMove ==
    /\ game.inputDragged # -1
    /\ \E p \in DragTargets :
          game' = Moved(Did(PointerMove(game,
                                Pt(UnitsPerPixel(game.gameState.canvasSize) * p.x,
                                   UnitsPerPixel(game.gameState.canvasSize) * p.y)),
                            "onCircleDrag"))
    /\ UNCHANGED <<detVars, gen, page>>

GamePointerUp ==
    /\ game.inputDragged # -1
    /\ game' = Did(PointerUp(game), "onCircleDragEnd")
    /\ UNCHANGED <<detVars, gen, page>>

GameRestart ==
    /\ game.hist.events < MaxEvents
    /\ \E g2 \in RestartLevel(game) : game' = DidEvent(g2, "restartLevel")
    /\ UNCHANGED <<detVars, gen, page>>

\* the Show Solution button
GameShowSolution ==
    /\ game.hist.events < MaxEvents
    /\ Len(game.timers) < MaxTimers
    /\ game' = DidEvent(ShowSolution(game), "showSolution")
    /\ UNCHANGED <<detVars, gen, page>>

\* three seconds have passed since the oldest pending showSolution
GameTimer ==
    /\ Len(game.timers) > 0
    /\ game' = Did(RestoreOriginal(game), "timer")
    /\ UNCHANGED <<detVars, gen, page>>

GameNextLevel ==
    /\ game.hist.events < MaxEvents
    /\ game.gameState.currentLevel < MaxGameLevel
    /\ \E g2 \in NextLevel(game) : game' = DidEvent(g2, "nextLevel")
    /\ UNCHANGED <<detVars, gen, page>>

GameStartNew ==
    /\ game.hist.events < MaxEvents
    /\ \E g2 \in StartNewGame(game) : game' = DidEvent(g2, "startNewGame")
    /\ UNCHANGED <<detVars, gen, page>>

GameNext ==
    \/ GameReload
    \/ GameResize
    \/ GamePointerDown
    \/ GamePointerMove
    \/ GamePointerUp
    \/ GameRestart
    \/ GameShowSolution
    \/ GameTimer
    \/ GameNextLevel
    \/ GameStartNew

SpecGame == GameInit /\ [][GameNext]_vars

-----------------------------------------------------------------------------
(* InputManager and AutoUpdateManager on their own.  page.input is the     *)
(* InputManager with the callbacks it has delivered so far; page.updater   *)
(* is the AutoUpdateManager: pc is the await at which init() stands,       *)
(* timers the intervals scheduled in the window, lastTimer the last id     *)
(* setInterval returned, checks the calls of registration.update() so far  *)
(* and destroyed whether destroy() has been called.                        *)

\* new InputManager(canvas, onCircleDragStart, onCircleDrag, onCircleDragEnd)
NewInputManager ==
    [draggedCircleId |-> -1, isDragging |-> FALSE, delivered |-> <<>>]

\* InputManager.handlePointerDown; circleId is what findCircleAtPosition
\* returns for the position (-1 for null)
HandlePointerDown(im, circleId) ==
    IF circleId # -1
    THEN [im EXCEPT !.draggedCircleId = circleId,
                    !.isDragging = TRUE,
                    !.delivered = Append(@, [callback |-> "onCircleDragStart",
                                             id |-> circleId])]
    ELSE im

\* InputManager.handlePointerMove
HandlePointerMove(im) ==
    IF im.draggedCircleId # -1
    THEN [im EXCEPT !.delivered = Append(@, [callback |-> "onCircleDrag",
                                             id |-> im.draggedCircleId])]
    ELSE im

\* InputManager.handlePointerUp
HandlePointerUp(im) ==
    IF im.draggedCircleId # -1
    THEN [im EXCEPT !.delivered = Append(@, [callback |-> "onCircleDragEnd",
                                             id |-> im.draggedCircleId]),
                    !.draggedCircleId = -1,
                    !.isDragging = FALSE]
    ELSE im

\* new AutoUpdateManager(): the constructor runs init() up to its first
\* await, the registration of the service worker; without serviceWorker in
\* navigator init() does nothing
NewAutoUpdateManager(supported) ==
    [registration |-> FALSE,
     updateCheckInterval |-> 0,
     pc |-> IF supported THEN "register" ELSE "done",
     timers |-> {},
     lastTimer |-> 0,
     checks |-> 0,
     destroyed |-> FALSE]

PageInit ==
    /\ \E supported \in BOOLEAN :
          page = [constructed |-> TRUE,
                  input |-> NewInputManager,
                  updater |-> NewAutoUpdateManager(supported)]
    /\ gen = GenIdle
    /\ game = GameIdle
    /\ dCircles = <<>>
    /\ dLines = <<>>
    /\ dCalls = 0
    /\ dFirst = <<>>
    /\ dBefore = <<>>
    /\ dMoves = 0
    /\ dThrew = FALSE

\* mousedown, or touchstart with the number of touches on the screen
PagePointerDown ==
    /\ Len(page.input.delivered) < MaxCallbacks
    /\ \E circleId \in {-1, 0, 1}, touches \in {0, 1, 2} :
          page' = [page EXCEPT !.input =
                      IF touches \in {0, 1} THEN HandlePointerDown(@, circleId) ELSE @]
    /\ UNCHANGED <<detVars, gen, game>>

\* mousemove, or touchmove with the number of touches on the screen
PagePointerMove ==
    /\ Len(page.input.delivered) < MaxCallbacks
    /\ \E touches \in {0, 1, 2} :
          page' = [page EXCEPT !.input =
                      IF touches \in {0, 1} /\ @.draggedCircleId # -1
                      THEN HandlePointerMove(@) ELSE @]
    /\ UNCHANGED <<detVars, gen, game>>

\* mouseup, mouseleave, touchend or touchcancel
PagePointerUp ==
    /\ Len(page.input.delivered) < MaxCallbacks
    /\ page' = [page EXCEPT !.input = HandlePointerUp(@)]
    /\ UNCHANGED <<detVars, gen, game>>

\* init() after navigator.serviceWorker.register settles: rejected, the
\* catch ends init(); resolved, checkForUpdates calls registration.update()
\* and init() awaits it
PageRegistered ==
    /\ page.updater.pc = "register"
    /\ \E resolved \in BOOLEAN :
          page' = [page EXCEPT !.updater =
                      IF resolved
                      THEN [@ EXCEPT !.registration = TRUE, !.checks = @ + 1,
                                     !.pc = "check"]
                      ELSE [@ EXCEPT !.pc = "done"]]
    /\ UNCHANGED <<detVars, gen, game>>

\* init() after its first checkForUpdates settles (a rejected update() is
\* caught inside checkForUpdates): the listeners are added and
\* startPeriodicUpdateChecks schedules the interval
PageChecked ==
    /\ page.updater.pc = "check"
    /\ page' = [page EXCEPT !.updater =
                    [@ EXCEPT !.updateCheckInterval = page.updater.lastTimer + 1,
                              !.timers = @ \cup {page.updater.lastTimer + 1},
                              !.lastTimer = @ + 1,
                              !.pc = "done"]]
    /\ UNCHANGED <<detVars, gen, game>>

\* five minutes have passed on a scheduled interval: its callback calls
\* checkForUpdates
PageInterval ==
    /\ page.updater.timers # {}
    /\ page.updater.checks < MaxChecks
    /\ page' = [page EXCEPT !.updater.checks = @ + 1]
    /\ UNCHANGED <<detVars, gen, game>>

\* AutoUpdateManager.destroy
PageDestroy ==
    /\ page' = [page EXCEPT !.updater =
                    IF @.updateCheckInterval # 0
                    THEN [@ EXCEPT !.timers = @ \ {page.updater.updateCheckInterval},
                                   !.updateCheckInterval = 0,
                                   !.destroyed = TRUE]
                    ELSE [@ EXCEPT !.destroyed = TRUE]]
    /\ UNCHANGED <<detVars, gen, game>>

PageNext ==
    \/ PagePointerDown
    \/ PagePointerMove
    \/ PagePointerUp
    \/ PageRegistered
    \/ PageChecked
    \/ PageInterval
    \/ PageDestroy

SpecPage == PageInit /\ [][PageNext]_vars

-----------------------------------------------------------------------------
(* Properties of the intersection engine (SpecDetect) *)

PositionOf(circles, cid) == circles[Find(circles, cid)].position

\* the segments of two lines intersect on the current positions
SegmentsCross(circles, l1, l2) ==
    LineSegmentsIntersect(PositionOf(circles, l1.from), PositionOf(circles, l1.to),
                          PositionOf(circles, l2.from), PositionOf(circles, l2.to))

NoCommonId(l1, l2) == {l1.from, l1.to} \cap {l2.from, l2.to} = {}

\* the three points lie on one straight line
Collinear(p, q, r) == (q.x - p.x) * (r.y - p.y) - (q.y - p.y) * (r.x - p.x) = 0

\* C4: after updateIntersections returns, an edge is flagged iff some other
\* edge of the list shares no endpoint id with it and their segments
\* intersect on the current positions; earlier flags have no influence.
C4_FlagsAreCrossings ==
    (dCalls >= 1 /\ ~dThrew) =>
        \A k \in 1..Len(dLines) :
            dLines[k].isIntersecting <=>
                \E m \in 1..Len(dLines) :
                    /\ m # k
                    /\ NoCommonId(dLines[k], dLines[m])
                    /\ SegmentsCross(dCircles, dLines[k], dLines[m])

\* a call that cleared a stale flag, set another and left a third edge clear
C4_Witness ==
    /\ dCalls >= 1
    /\ \E k \in 1..Len(dLines) : dBefore[k].isIntersecting /\ ~dLines[k].isIntersecting
    /\ \E k \in 1..Len(dLines) : ~dBefore[k].isIntersecting /\ dLines[k].isIntersecting

\* C5: an edge all of whose fellow edges share an endpoint id with it is
\* never flagged, whatever the positions (collinear overlap included).
C5_AdjacentNeverFlagged ==
    dCalls >= 1 =>
        \A k \in 1..Len(dLines) :
            (\A m \in 1..Len(dLines) : m # k => ~NoCommonId(dLines[k], dLines[m]))
                => ~dLines[k].isIntersecting

\* edges 0-1 and 0-2 with node 1 on the segment from node 0 to node 2
C5_Witness ==
    /\ dCalls >= 1
    /\ Len(dCircles) = Len(SquareCircles)
    /\ Len(dLines) = 2
    /\ ~NoCommonId(dLines[1], dLines[2])
    /\ <<dLines[1].from, dLines[1].to>> = <<0, 1>>
    /\ <<dLines[2].from, dLines[2].to>> = <<0, 2>>
    /\ Collinear(PositionOf(dCircles, 0), PositionOf(dCircles, 1), PositionOf(dCircles, 2))
    /\ PositionOf(dCircles, 1) = Pt(50, 50)
    /\ PositionOf(dCircles, 0) = Pt(0, 0)
    /\ PositionOf(dCircles, 2) = Pt(100, 100)

\* C6: a second updateIntersections on unchanged positions and edges leaves
\* every flag as the first call left it.
C6_Idempotent == dCalls = 2 => dLines = dFirst

\* two calls in a row, the first of which started from stale flags
C6_Witness ==
    /\ dCalls = 2
    /\ \E k \in 1..Len(dLines) : dBefore[k].isIntersecting # dFirst[k].isIntersecting
    /\ \E k \in 1..Len(dLines) : dFirst[k].isIntersecting

EdgeList(lines) == [k \in 1..Len(lines) |-> <<lines[k].from, lines[k].to>>]

Flagged(lines) == {k \in 1..Len(lines) : lines[k].isIntersecting}

\* C7: on the square, the four sides alone and the four sides with the
\* diagonal 0-2 have no flagged edge; with both diagonals exactly the two
\* diagonals are flagged.
C7_SquareScenario ==
    (dCircles = SquareCircles /\ dCalls >= 1) =>
        /\ EdgeList(dLines) = SubSeq(DEdges, 1, 4) => Flagged(dLines) = {}
        /\ EdgeList(dLines) = SubSeq(DEdges, 1, 5) => Flagged(dLines) = {}
        /\ EdgeList(dLines) = DEdges => Flagged(dLines) = {5, 6}

\* the last stage of the scenario
C7_Witness ==
    /\ dCircles = SquareCircles
    /\ dCalls >= 1
    /\ EdgeList(dLines) = DEdges
    /\ dMoves = 0

\* both ends of a line are in the node list
Present(circles, l) == Find(circles, l.from) # 0 /\ Find(circles, l.to) # 0

\* C12: a call of updateIntersections with an edge whose from or to id is
\* not in the node list ends in an error, whatever the edge list is.
C12_DanglingEdgeFails ==
    (dCalls >= 1 /\ \E k \in 1..Len(dLines) : ~Present(dCircles, dLines[k]))
        => dThrew

\* twice the signed area of the triangle p, q, r
CrossProduct(p, q, r) == (q.x - p.x) * (r.y - p.y) - (q.y - p.y) * (r.x - p.x)

\* the denominator of the intersection fractions is zero
ParallelLines(circles, l1, l2) ==
    (PositionOf(circles, l2.to).y - PositionOf(circles, l2.from).y)
        * (PositionOf(circles, l1.to).x - PositionOf(circles, l1.from).x)
    = (PositionOf(circles, l2.to).x - PositionOf(circles, l2.from).x)
        * (PositionOf(circles, l1.to).y - PositionOf(circles, l1.from).y)

\* p lies on the segment from a to b
OnSegment(p, a, b) ==
    /\ CrossProduct(a, b, p) = 0
    /\ Min2(a.x, b.x) <= p.x /\ p.x <= Max2(a.x, b.x)
    /\ Min2(a.y, b.y) <= p.y /\ p.y <= Max2(a.y, b.y)

\* the pairs of lines the detector compares: no common id, all ends there
ComparedPairs ==
    {pr \in (1..Len(dLines)) \X (1..Len(dLines)) :
        /\ pr[1] # pr[2]
        /\ NoCommonId(dLines[pr[1]], dLines[pr[2]])
        /\ Present(dCircles, dLines[pr[1]])
        /\ Present(dCircles, dLines[pr[2]])}

\* C13: segments with a zero denominator (parallel or collinear) are
\* reported as not intersecting, so after updateIntersections every flagged
\* edge has a partner that is not parallel to it: collinear overlapping
\* edges do not flag each other.
C13_ParallelNeverCross ==
    /\ \A pr \in ComparedPairs :
          ParallelLines(dCircles, dLines[pr[1]], dLines[pr[2]])
              => ~SegmentsCross(dCircles, dLines[pr[1]], dLines[pr[2]])
    /\ (dCalls >= 1 /\ ~dThrew) =>
          \A k \in 1..Len(dLines) :
              dLines[k].isIntersecting =>
                  \E m \in 1..Len(dLines) :
                      /\ <<k, m>> \in ComparedPairs
                      /\ ~ParallelLines(dCircles, dLines[k], dLines[m])

\* two edges without a common id on one straight line, an end of one on
\* the segment of the other, and neither flagged after the call
C13_Witness ==
    /\ dCalls >= 1
    /\ ~dThrew
    /\ Flagged(dLines) = {}
    /\ \E pr \in ComparedPairs :
          /\ ParallelLines(dCircles, dLines[pr[1]], dLines[pr[2]])
          /\ PositionOf(dCircles, dLines[pr[2]].from) # PositionOf(dCircles, dLines[pr[2]].to)
          /\ OnSegment(PositionOf(dCircles, dLines[pr[1]].from),
                       PositionOf(dCircles, dLines[pr[2]].from),
                       PositionOf(dCircles, dLines[pr[2]].to))
          /\ OnSegment(PositionOf(dCircles, dLines[pr[1]].to),
                       PositionOf(dCircles, dLines[pr[2]].from),
                       PositionOf(dCircles, dLines[pr[2]].to))

\* the ends of each segment are on the two sides of the other segment's
\* line, or on it
Straddle(a, b, c, d) ==
    /\ CrossProduct(a, b, c) * CrossProduct(a, b, d) <= 0
    /\ CrossProduct(c, d, a) * CrossProduct(c, d, b) <= 0

LinesStraddle(circles, l1, l2) ==
    Straddle(PositionOf(circles, l1.from), PositionOf(circles, l1.to),
             PositionOf(circles, l2.from), PositionOf(circles, l2.to))

\* an end of l1 lies on the segment of l2
EndOnLine(circles, l1, l2) ==
    \/ OnSegment(PositionOf(circles, l1.from),
                 PositionOf(circles, l2.from), PositionOf(circles, l2.to))
    \/ OnSegment(PositionOf(circles, l1.to),
                 PositionOf(circles, l2.from), PositionOf(circles, l2.to))

\* C14: segments that are not parallel are reported as intersecting iff
\* they meet, their ends included; after updateIntersections two edges
\* without a common id that are not parallel and of which one has an end on
\* the other are both flagged.
C14_BoundaryContactCounts ==
    /\ \A pr \in ComparedPairs :
          ~ParallelLines(dCircles, dLines[pr[1]], dLines[pr[2]])
              => (SegmentsCross(dCircles, dLines[pr[1]], dLines[pr[2]])
                    <=> LinesStraddle(dCircles, dLines[pr[1]], dLines[pr[2]]))
    /\ (dCalls >= 1 /\ ~dThrew) =>
          \A pr \in ComparedPairs :
              (/\ ~ParallelLines(dCircles, dLines[pr[1]], dLines[pr[2]])
               /\ EndOnLine(dCircles, dLines[pr[1]], dLines[pr[2]]))
              => /\ dLines[pr[1]].isIntersecting
                 /\ dLines[pr[2]].isIntersecting

\* a list of two edges, an end of one on the other, both flagged
C14_Witness ==
    /\ dCalls >= 1
    /\ ~dThrew
    /\ Len(dLines) = 2
    /\ Flagged(dLines) = {1, 2}
    /\ <<1, 2>> \in ComparedPairs
    /\ ~ParallelLines(dCircles, dLines[1], dLines[2])
    /\ EndOnLine(dCircles, dLines[1], dLines[2])

-----------------------------------------------------------------------------
(* Claims about GameLevel.generateLevel (checked under SpecGen) *)

\* the solution snapshot exists
Captured == gen.pc \in {"scramble", "check", "done"}

\* the edges updateIntersections flags on the solution snapshot
SolutionFlagged ==
    Flagged(UpdateIntersections(gen.solution.circles, gen.solution.lines).lines)

\* C1: for every fresh generation, updateIntersections on the nodes and
\* edges of the captured solution snapshot leaves every edge unflagged.
C1_SolutionHasNoCrossings == Captured => SolutionFlagged = {}

\* C2: when the edge assignment has returned, every node has at least
\* three connections.
C2_EveryDegreeAtLeastThree ==
    (gen.pc = "capture" \/ Captured) =>
        \A k \in 1..Len(gen.circles) : Len(gen.circles[k].connections) >= 3

\* the unordered id pairs of an edge list
IdPairs(lines) == {{lines[k].from, lines[k].to} : k \in 1..Len(lines)}

\* C3: the result of generateLevel has the same set of unordered id pairs
\* in its edge list as in the edge list of its solution snapshot.
C3_SameTopology ==
    gen.pc = "done" => IdPairs(gen.lines) = IdPairs(gen.solution.lines)

\* a result whose nodes were all moved away from their solution positions
C3_Witness ==
    /\ gen.pc = "done"
    /\ Len(gen.lines) >= 6
    /\ \A k \in 1..Len(gen.circles) :
          gen.circles[k].position # gen.solution.circles[k].position

\* C8: the level parameters are nodeCount = 6 + floor((levelNumber - 1) / 3)
\* and degree = 3 + (levelNumber - 1) mod 3, that is levelNumber - 1 =
\* 3 * (nodeCount - 6) + (degree - 3) with degree in {3, 4, 5}; levels 1, 3,
\* 4 and 7 give (6, 3), (6, 5), (7, 3) and (8, 3).
C8_LevelParameters ==
    gen.pc \notin {"off", "layout"} =>
        /\ gen.connectionsPerNode \in {3, 4, 5}
        /\ gen.levelNumber - 1 = 3 * (gen.nodeCount - 6) + (gen.connectionsPerNode - 3)
        /\ gen.levelNumber = 1 => gen.nodeCount = 6 /\ gen.connectionsPerNode = 3
        /\ gen.levelNumber = 3 => gen.nodeCount = 6 /\ gen.connectionsPerNode = 5
        /\ gen.levelNumber = 4 => gen.nodeCount = 7 /\ gen.connectionsPerNode = 3
        /\ gen.levelNumber = 7 => gen.nodeCount = 8 /\ gen.connectionsPerNode = 3

\* level 7 after its parameters were computed
C8_Witness ==
    /\ gen.pc \notin {"off", "layout"}
    /\ gen.levelNumber = 7
    /\ gen.nodeCount = 8

\* the call has returned { circles, lines, solution }
Delivered(g) ==
    /\ g.pc = "done"
    /\ Len(g.circles) = g.nodeCount
    /\ Len(g.solution.circles) = g.nodeCount
    /\ Len(g.solution.lines) = Len(g.lines)

\* every lookup circles.find(c => c.id === ...)! of the generator finds its
\* circle, so that no position access is made on undefined
LookupsSucceed(g) ==
    \A k \in 1..Len(g.lines) :
        Find(g.circles, g.lines[k].from) # 0 /\ Find(g.circles, g.lines[k].to) # 0

\* the call is at a statement that has a next statement, or has returned
Continues(g) ==
    CASE g.pc \in {"layout", "capture", "scramble", "check"} -> TRUE
      [] g.pc = "priority" -> PrioritySteps(g) # {}
      [] g.pc = "final" -> FinalSteps(g) # {}
      [] OTHER -> Delivered(g)

\* how far the call has come: the phase, then the lines pushed and the
\* circle the loop is at
PhaseRank(pc) ==
    CASE pc = "layout" -> 0
      [] pc = "priority" -> 1
      [] pc = "final" -> 2
      [] pc = "capture" -> 3
      [] pc = "scramble" -> 4
      [] pc = "check" -> 5
      [] OTHER -> 6

ProgressMade(g) == 100 * PhaseRank(g.pc) + Len(g.lines) + g.idx

\* C11: generateLevel never blocks level delivery: for every level number
\* it returns a node list, an edge list and a solution without raising an
\* error, also when a node ends with degree below 3 or the verification of
\* the solution finds crossings.  Every step of the call makes progress
\* towards the return (so the call ends), performs no failing lookup, and
\* leads to a statement that has a next statement or to the return.
C11_NeverBlocksDelivery ==
    [][/\ ProgressMade(gen') > ProgressMade(gen)
       /\ ProgressMade(gen') <= 100 * PhaseRank("done") + 99
       /\ LookupsSucceed(gen')
       /\ Continues(gen')]_vars

\* a level delivered with both diagnostics logged
C11_Witness ==
    /\ Delivered(gen)
    /\ gen.minConnectionsError
    /\ gen.intersectionCount > 0

\* ids unique, endpoints among the ids and distinct, no unordered pair twice
WellFormedGraph(circles, lines) ==
    /\ \A a, b \in 1..Len(circles) : circles[a].id = circles[b].id => a = b
    /\ \A k \in 1..Len(lines) :
          /\ \E a \in 1..Len(circles) : circles[a].id = lines[k].from
          /\ \E a \in 1..Len(circles) : circles[a].id = lines[k].to
          /\ lines[k].from # lines[k].to
    /\ \A k, m \in 1..Len(lines) :
          {lines[k].from, lines[k].to} = {lines[m].from, lines[m].to} => k = m

\* C19: in every generated level node ids are unique, every edge's from and
\* to are ids of nodes of the level with from # to, and no unordered id pair
\* occurs twice in the edge list; after each edge accepted during
\* construction, in the returned puzzle and in the solution.
C19_EdgesWellFormed ==
    /\ WellFormedGraph(gen.circles, gen.lines)
    /\ WellFormedGraph(gen.solution.circles, gen.solution.lines)

\* a level returned with at least as many edges as nodes, and its solution
C19_Witness ==
    /\ gen.pc = "done"
    /\ Len(gen.lines) >= Len(gen.circles)
    /\ Len(gen.circles) >= 6
    /\ Len(gen.solution.lines) = Len(gen.lines)

\* the edges incident to the node with id cid
IncidentEdges(lines, cid) ==
    {k \in 1..Len(lines) : lines[k].from = cid \/ lines[k].to = cid}

\* A lists B iff B lists A iff the edge list has the pair {A, B}; the degree
\* of a node is the number of its incident edges
NeighborsConsistent(circles, lines) ==
    /\ \A a, b \in 1..Len(circles) :
          /\ Includes(circles[a].connections, circles[b].id)
                <=> Includes(circles[b].connections, circles[a].id)
          /\ Includes(circles[a].connections, circles[b].id)
                <=> \E k \in 1..Len(lines) :
                        {lines[k].from, lines[k].to} = {circles[a].id, circles[b].id}
    /\ \A a \in 1..Len(circles) :
          Len(circles[a].connections) = Cardinality(IncidentEdges(lines, circles[a].id))

\* C20: the neighbor relation is symmetric and consistent with the edge
\* list at every step of construction and in the returned level: A lists B
\* iff B lists A iff the edge list contains the unordered pair {A, B}, and
\* each node's degree equals the number of edges incident to it.
C20_NeighborsSymmetric ==
    /\ NeighborsConsistent(gen.circles, gen.lines)
    /\ NeighborsConsistent(gen.solution.circles, gen.solution.lines)

\* during construction, with some nodes connected and others not yet
C20_Witness ==
    /\ gen.pc = "priority"
    /\ \E a \in 1..Len(gen.circles) : Len(gen.circles[a].connections) >= 2
    /\ \E a \in 1..Len(gen.circles) : Len(gen.circles[a].connections) = 0

-----------------------------------------------------------------------------
(* Properties of the game, stated for SpecGame *)

Positions(items) == [k \in 1..Len(items) |-> items[k].position]

Connections(items) == [k \in 1..Len(items) |-> items[k].connections]

\* the objects of a level or of a stored configuration
ObjectsOf(level) ==
    (IdentitiesOfCircles(level.circles) \cup IdentitiesOfLines(level.lines)
        \cup IdentitiesOfCircles(level.solution.circles)
        \cup IdentitiesOfLines(level.solution.lines)) \ {0}

\* the last call of generateLevel was given a stored configuration of the
\* level number and the canvas size it asked for
ReturnedFromStored ==
    /\ game.hist.returned.called
    /\ ~game.hist.returned.storedConfig.isUndefined
    /\ game.hist.returned.storedConfig.levelNumber = game.hist.returned.levelNumber
    /\ game.hist.returned.storedConfig.canvasSize.x = game.hist.returned.canvasSize.x
    /\ game.hist.returned.storedConfig.canvasSize.y = game.hist.returned.canvasSize.y

\* C9: when generateLevel is given a stored configuration of the requested
\* level number and canvas size, the level it returns has the circles,
\* lines and solution of the configuration by value, shares no object with
\* it, and whatever the game writes afterwards to the returned circles and
\* lines leaves the stored configuration as it was.
C9_CopyOfStoredConfig ==
    ReturnedFromStored =>
        /\ game.hist.returned.level.circles.items
              = game.hist.returned.storedConfig.circles.items
        /\ game.hist.returned.level.lines.items
              = game.hist.returned.storedConfig.lines.items
        /\ game.hist.returned.level.solution.isNull
              = game.hist.returned.storedConfig.solution.isNull
        /\ game.hist.returned.level.solution.circles.items
              = game.hist.returned.storedConfig.solution.circles.items
        /\ game.hist.returned.level.solution.lines.items
              = game.hist.returned.storedConfig.solution.lines.items
        /\ ObjectsOf(game.hist.returned.level)
              \cap ObjectsOf(game.hist.returned.storedConfig) = {}
        /\ game.gameState.levelConfigs[game.hist.returned.levelNumber]
              = game.hist.returned.storedConfig

\* a copy of a stored configuration is in play and a drag has moved one of
\* its circles and changed the flag of one of its lines
C9_Witness ==
    /\ ReturnedFromStored
    /\ game.hist.movedSinceReturn
    /\ game.gameState.circles.arr = game.hist.returned.level.circles.arr
    /\ Positions(game.gameState.circles.items)
          # Positions(game.hist.returned.storedConfig.circles.items)
    /\ Flagged(game.gameState.lines.items)
          # Flagged(game.hist.returned.storedConfig.lines.items)

\* C10: after restartLevel on the canvas size the current level was first
\* generated with, the positions of the circles and the list of lines are
\* those of that first generated level, whatever was dragged in between.
C10_RestartGivesSamePuzzle ==
    (/\ game.hist.last = "restartLevel"
     /\ ~game.hist.generated[game.gameState.currentLevel].isNone
     /\ game.hist.generated[game.gameState.currentLevel].canvasSize
           = game.gameState.canvasSize)
    => /\ Positions(game.gameState.circles.items)
            = Positions(game.hist.generated[game.gameState.currentLevel].circles)
       /\ Connections(game.gameState.circles.items)
            = Connections(game.hist.generated[game.gameState.currentLevel].circles)
       /\ EdgeList(game.gameState.lines.items)
            = EdgeList(game.hist.generated[game.gameState.currentLevel].lines)

\* restartLevel on that canvas size after a drag moved a circle of the level
C10_Witness ==
    /\ game.hist.last = "restartLevel"
    /\ ~game.hist.generated[game.gameState.currentLevel].isNone
    /\ game.hist.generated[game.gameState.currentLevel].canvasSize
          = game.gameState.canvasSize
    /\ game.hist.movedSinceGenerated
    /\ game.hist.drags > 0

\* onCircleDrag has just run for a circle of gameState.circles
DraggedIndex == Find(game.gameState.circles.items, game.inputDragged)

AfterDrag ==
    /\ game.hist.last = "onCircleDrag"
    /\ DraggedIndex # 0

Dragged == game.gameState.circles.items[DraggedIndex]

\* radius <= v <= extent - radius, in model units
WithinExtent(v, radius, extent, u) == u * radius <= v /\ v <= u * (extent - radius)

\* the statement for every canvas size: after onCircleDrag the position of
\* the dragged circle lies in [radius, extent - radius] on both axes
C15_DragAlwaysInBounds ==
    AfterDrag =>
        /\ ~Dragged.position.nan
        /\ WithinExtent(Dragged.position.x, Dragged.radius, game.gameState.canvasSize.x,
                        UnitsPerPixel(game.gameState.canvasSize))
        /\ WithinExtent(Dragged.position.y, Dragged.radius, game.gameState.canvasSize.y,
                        UnitsPerPixel(game.gameState.canvasSize))

\* C15: after every onCircleDrag(nodeId, position) for an existing node the
\* stored position satisfies radius <= x <= canvasSize.x - radius and
\* radius <= y <= canvasSize.y - radius, on every axis along which the
\* canvas is at least as wide as the circle (2 * radius); along a narrower
\* axis the interval is empty and the position is extent - radius.
C15_DragInBoundsWhereCanvasFits ==
    AfterDrag =>
        /\ ~Dragged.position.nan
        /\ IF game.gameState.canvasSize.x >= 2 * Dragged.radius
           THEN WithinExtent(Dragged.position.x, Dragged.radius, game.gameState.canvasSize.x,
                             UnitsPerPixel(game.gameState.canvasSize))
           ELSE Dragged.position.x = UnitsPerPixel(game.gameState.canvasSize)
                                        * (game.gameState.canvasSize.x - Dragged.radius)
        /\ IF game.gameState.canvasSize.y >= 2 * Dragged.radius
           THEN WithinExtent(Dragged.position.y, Dragged.radius, game.gameState.canvasSize.y,
                             UnitsPerPixel(game.gameState.canvasSize))
           ELSE Dragged.position.y = UnitsPerPixel(game.gameState.canvasSize)
                                        * (game.gameState.canvasSize.y - Dragged.radius)

\* a pointer position right of the allowed interval was clamped to its end
C15_Witness ==
    /\ AfterDrag
    /\ game.gameState.canvasSize.x >= 2 * Dragged.radius
    /\ Dragged.position.x = UnitsPerPixel(game.gameState.canvasSize)
                                * (game.gameState.canvasSize.x - Dragged.radius)
    /\ Dragged.position.y = UnitsPerPixel(game.gameState.canvasSize) * 300

\* C16: the solution snapshot is immutable once captured: whatever drag
\* start / drag / drag end, updateIntersections, showSolution, its timer or
\* restartLevel do, Game.currentSolution is what it was when it was
\* assigned, and every LevelConfig in levelConfigs is what storeLevelConfig
\* stored (positions, connection lists and edges with their flags).
C16_SnapshotsImmutable ==
    /\ game.currentSolution = game.hist.solution
    /\ \A l \in GameLevels : game.gameState.levelConfigs[l] = game.hist.stored[l]

\* the solution is revealed and a drag has moved a circle of the revealed
\* arrangement away from its place in the solution
C16_Witness ==
    /\ Len(game.timers) > 0
    /\ game.hist.last = "onCircleDrag"
    /\ ~game.currentSolution.isNull
    /\ ~game.gameState.levelConfigs[game.gameState.currentLevel].isUndefined
    /\ Positions(game.gameState.circles.items)
          # Positions(game.currentSolution.circles.items)

\* C17: flags are never stale when observed: in every state of Game
\* between two event handlers, after any sequence of initialize, restart,
\* drag, reveal and reveal-timer events, each line's isIntersecting is the
\* value a full updateIntersections on the current positions produces.
C17_FlagsNeverStale ==
    game.gameState.lines.items
        = UpdateIntersections(game.gameState.circles.items, game.gameState.lines.items).lines

\* the reveal timer has restored an arrangement that a drag had changed
\* and that has crossings
C17_Witness ==
    /\ game.hist.last = "timer"
    /\ game.hist.drags > 0
    /\ game.hist.movedSinceReturn
    /\ \E k \in 1..Len(game.gameState.lines.items) :
          game.gameState.lines.items[k].isIntersecting
    /\ \E k \in 1..Len(game.gameState.lines.items) :
          ~game.gameState.lines.items[k].isIntersecting

\* some line of the game is flagged
AnyFlagged(gm) ==
    \E k \in 1..Len(gm.gameState.lines.items) : gm.gameState.lines.items[k].isIntersecting

\* isCompleted is true after a handler at whose start it was false: the
\* field of the Game that ran the handler, or the false the constructor
\* gives a new Game
BecameCompleted ==
    /\ game'.gameState.isCompleted
    /\ ~game.gameState.isCompleted \/ game'.hist.last = "constructor"

\* C18: Game.isCompleted changes from false to true only inside
\* onCircleDragEnd for an existing node, and only when no line has
\* isIntersecting = true at that moment; it never becomes true during
\* onCircleDrag or at level initialization.
C18_CompletedOnlyAtDragEnd ==
    [][BecameCompleted =>
            /\ game'.hist.last = "onCircleDragEnd"
            /\ Find(game.gameState.circles.items, game.inputDragged) # 0
            /\ ~AnyFlagged(game')]_vars


\* initializeGame has just run (in the constructor, nextLevel or startNewGame)
Initialized(gm) == gm.hist.last \in {"constructor", "nextLevel", "startNewGame"}

\* localStorage holds no saved state, one of another level, or one with an
\* empty list of circles
NothingToRestore(gm) ==
    \/ gm.localStorage.state.isNull
    \/ gm.localStorage.state.currentLevel # gm.gameState.currentLevel
    \/ Len(gm.localStorage.state.circles) = 0

\* the circles in play are as many as the parameters of the level say
FullNodeList(gm) ==
    /\ Len(gm.gameState.circles.items) > 0
    /\ Len(gm.gameState.circles.items)
          = CalculateLevelParameters(gm.gameState.currentLevel).nodeCount

\* a saved state of the current level whose list of circles is empty
SavedEmpty(gm) ==
    [gm EXCEPT !.localStorage.state =
        [isNull |-> FALSE, circles |-> <<>>, lines |-> <<>>,
         currentLevel |-> gm.gameState.currentLevel, isCompleted |-> FALSE]]

\* C21: when initializeGame finds no saved state, a saved state of another
\* level or a saved state with an empty list of circles, the list of circles
\* is afterwards non-empty and has the node count of the parameters of
\* currentLevel.
C21_NoPriorStateGeneratesFresh ==
    /\ (Initialized(game) /\ NothingToRestore(game)) => FullNodeList(game)
    /\ \A g2 \in InitializeGame(SavedEmpty(game)) : FullNodeList(g2)

\* nextLevel has run over the saved state of the level before
C21_Witness ==
    /\ game.hist.last = "nextLevel"
    /\ ~game.localStorage.state.isNull
    /\ game.localStorage.state.currentLevel # game.gameState.currentLevel
    /\ Len(game.localStorage.state.circles) > 0
    /\ FullNodeList(game)


\* C22: once every pending timer of showSolution has fired, the circles and
\* lines in play are again the arrangement the player had made of the
\* current level before the solution was shown, whatever was clicked or
\* dragged in between.
C22_RevealIsTransient ==
    Len(game.timers) = 0 =>
        /\ Positions(game.gameState.circles.items) = Positions(game.hist.own.circles)
        /\ EdgeList(game.gameState.lines.items) = EdgeList(game.hist.own.lines)


\* the arrangement the player has made has no crossing lines
OwnUntangled(gm) ==
    ~AnyFlagged([gm EXCEPT !.gameState.lines.items =
                    UpdateIntersections(gm.hist.own.circles, gm.hist.own.lines).lines])

\* onCircleDragEnd has saved a state with the positions of the solution
SavedTheSolution ==
    /\ game'.hist.last = "onCircleDragEnd"
    /\ game'.localStorage.state # game.localStorage.state
    /\ ~game'.currentSolution.isNull
    /\ Positions(game'.localStorage.state.circles)
          = Positions(game'.currentSolution.circles.items)

\* C23: showing the solution does not solve the puzzle: while it is shown
\* and afterwards isCompleted does not become true, and no state with the
\* positions of the solution is saved, unless the arrangement the player
\* has made has no crossing lines; for every interleaving of drag start and
\* drag end with showSolution and its timer.
C23_RevealDoesNotSolve ==
    [][/\ (game'.gameState.isCompleted /\ ~game.gameState.isCompleted)
            => OwnUntangled(game')
       /\ SavedTheSolution => OwnUntangled(game')]_vars


\* the number of connections of the circle with id cid
DegreeOf(circles, cid) == Len(circles[Find(circles, cid)].connections)

\* the line a step of the edge assignment has pushed
LinePushed == gen'.lines[Len(gen'.lines)]

\* C24: during and after the edge assignment no circle has more connections
\* than connectionsPerNode, and a line is pushed only between an initiating
\* circle and a target that both had fewer before.
C24_DegreeWithinTarget ==
    [][/\ \A k \in 1..Len(gen'.circles) :
              Len(gen'.circles[k].connections) <= gen'.connectionsPerNode
       /\ Len(gen'.lines) > Len(gen.lines) =>
              /\ Len(gen'.lines) = Len(gen.lines) + 1
              /\ DegreeOf(gen.circles, LinePushed.from) < gen.connectionsPerNode
              /\ DegreeOf(gen.circles, LinePushed.to) < gen.connectionsPerNode]_vars

\* a generated level in which a pair of circles has reached a target
\* degree above three and another circle was left below it
C24_Witness ==
    /\ gen.pc = "done"
    /\ gen.connectionsPerNode > 3
    /\ \E k \in 1..Len(gen.circles) :
          Len(gen.circles[k].connections) = gen.connectionsPerNode
    /\ \E k \in 1..Len(gen.circles) :
          Len(gen.circles[k].connections) < gen.connectionsPerNode


\* v and w are nonzero and of opposite sign
OppositeSigns(v, w) == (v < 0 /\ w > 0) \/ (v > 0 /\ w < 0)

\* v and w are not both positive and not both negative
NotSameSign(v, w) == ~((v < 0 /\ w < 0) \/ (v > 0 /\ w > 0))

\* the chord between the circles at indexes a and b and the line have four
\* distinct ends and cross in a point inside both
CrossesChord(circles, a, b, line) ==
    /\ {circles[a].id, circles[b].id} \cap {line.from, line.to} = {}
    /\ OppositeSigns(CrossProduct(circles[a].position, circles[b].position,
                                  PositionOf(circles, line.from)),
                     CrossProduct(circles[a].position, circles[b].position,
                                  PositionOf(circles, line.to)))
    /\ OppositeSigns(CrossProduct(PositionOf(circles, line.from),
                                  PositionOf(circles, line.to), circles[a].position),
                     CrossProduct(PositionOf(circles, line.from),
                                  PositionOf(circles, line.to), circles[b].position))

\* the chord and the line have four distinct ends and a point in common
TouchesChord(circles, a, b, line) ==
    /\ {circles[a].id, circles[b].id} \cap {line.from, line.to} = {}
    /\ NotSameSign(CrossProduct(circles[a].position, circles[b].position,
                                PositionOf(circles, line.from)),
                   CrossProduct(circles[a].position, circles[b].position,
                                PositionOf(circles, line.to)))
    /\ NotSameSign(CrossProduct(PositionOf(circles, line.from),
                                PositionOf(circles, line.to), circles[a].position),
                   CrossProduct(PositionOf(circles, line.from),
                                PositionOf(circles, line.to), circles[b].position))

\* another circle below the target degree that c is not connected to
Candidate(g, c, t) ==
    /\ t # c
    /\ Len(g.circles[t].connections) < g.connectionsPerNode
    /\ ~Includes(g.circles[c].connections, g.circles[t].id)

\* a candidate whose chord crosses no accepted chord
Admissible(g, c, t) ==
    /\ Candidate(g, c, t)
    /\ \A k \in 1..Len(g.lines) : ~CrossesChord(g.circles, c, t, g.lines[k])

\* a candidate whose chord has no point in common with an accepted chord
\* that has other ends
ClearlyAdmissible(g, c, t) ==
    /\ Candidate(g, c, t)
    /\ \A k \in 1..Len(g.lines) : ~TouchesChord(g.circles, c, t, g.lines[k])

\* m is nearer to c than t by more than the rounding of the layout
StrictlyNearer(g, c, m, t) ==
    /\ Distance2(g.circles[c].position, g.circles[m].position)
          < Distance2(g.circles[c].position, g.circles[t].position)
    /\ ~SameDistance(Distance2(g.circles[c].position, g.circles[m].position),
                     Distance2(g.circles[c].position, g.circles[t].position))

\* what findBestNonIntersectingConnectionTarget can return for circle c
Found(g, c) ==
    FindBestTargets(c, g.circles, g.connectionsPerNode, g.used, g.lines,
                    UnitsPerPixel(g.canvasSize))

Assigning(g) == g.pc \in {"priority", "final"}

\* C25: for a circle c findBestNonIntersectingConnectionTarget returns an
\* admissible target of minimum distance (another circle below the target
\* degree, not connected to c, whose chord crosses no accepted chord, with
\* no admissible circle strictly nearer), and null iff there is none.
C25_NearestAdmissibleTarget ==
    Assigning(gen) =>
        \A c \in 1..Len(gen.circles) :
            /\ \A t \in Found(gen, c) :
                  /\ Admissible(gen, c, t)
                  /\ \A m \in 1..Len(gen.circles) :
                        ClearlyAdmissible(gen, c, m) => ~StrictlyNearer(gen, c, m, t)
            /\ (Found(gen, c) = {})
                  => ~\E t \in 1..Len(gen.circles) : ClearlyAdmissible(gen, c, t)
            /\ (~\E t \in 1..Len(gen.circles) : Admissible(gen, c, t))
                  => Found(gen, c) = {}


\* the circle at index k has fewer than three connections and the search
\* finds a target for it
CanInitiate(g, k) == Len(g.circles[k].connections) < 3 /\ Found(g, k) # {}

\* the index of the circle that initiated the line pushed last
Initiator == Find(gen.circles, LinePushed.from)

\* C26: every iteration of the priority loop adds exactly one line, from a
\* circle that has fewer than three connections and a target and whose need
\* max(0, 3 - degree) no other such circle exceeds; the loop ends only when
\* every circle has three connections, or no circle with fewer has a
\* target, or 1000 lines were added.
C26_PriorityLoop ==
    [][gen.pc = "priority" =>
          \/ /\ gen'.pc = "priority"
             /\ Len(gen'.lines) = Len(gen.lines) + 1
             /\ gen'.attempts = gen.attempts + 1
             /\ SubSeq(gen'.lines, 1, Len(gen.lines)) = gen.lines
             /\ CanInitiate(gen, Initiator)
             /\ Find(gen.circles, LinePushed.to) \in Found(gen, Initiator)
             /\ \A k \in 1..Len(gen.circles) :
                    CanInitiate(gen, k)
                        => Need(gen.circles[k]) <= Need(gen.circles[Initiator])
          \/ /\ gen'.pc = "final"
             /\ gen'.lines = gen.lines
             /\ \/ \A k \in 1..Len(gen.circles) : Len(gen.circles[k].connections) >= 3
                \/ \A k \in 1..Len(gen.circles) : ~CanInitiate(gen, k)
                \/ gen.attempts = PriorityMaxAttempts]_vars

\* the loop has added lines, its sort has moved circles, and it has ended
\* with a circle below three connections for which there is no target
C26_Witness ==
    /\ gen.pc = "final"
    /\ gen.idx = 1
    /\ gen.attempts > 0
    /\ gen.attempts = Len(gen.lines)
    /\ gen.order # [k \in 1..Len(gen.circles) |-> k]
    /\ \E k \in 1..Len(gen.circles) : Len(gen.circles[k].connections) < 3


\* the circles and lines of a snapshot with the target degree of the level
SolutionGraph(g) ==
    [circles |-> g.solution.circles, lines |-> g.solution.lines,
     connectionsPerNode |-> g.connectionsPerNode]

\* no two distinct circles are both below the target degree, not connected
\* and joined by a chord that crosses no line with other ends
Maximal(g) ==
    \A a \in 1..Len(g.circles), b \in 1..Len(g.circles) :
        ~(/\ Len(g.circles[a].connections) < g.connectionsPerNode
          /\ Admissible(g, a, b))

\* C27: the edge set the edge assignment returns is maximal: after the
\* final pass no two distinct circles are both below the target degree, not
\* connected to each other and joined by a chord that crosses no existing
\* chord that has no end in common with it.
C27_EdgeSetMaximal ==
    /\ gen.pc = "capture" => Maximal(gen)
    /\ Captured => Maximal(SolutionGraph(gen))

\* the final pass has added a line and has left two circles below the
\* target degree that are not connected to each other
C27_Witness ==
    /\ gen.pc = "capture"
    /\ Len(gen.lines) > gen.attempts
    /\ \E a \in 1..Len(gen.circles), b \in 1..Len(gen.circles) :
          /\ Len(gen.circles[a].connections) < gen.connectionsPerNode
          /\ Candidate(gen, a, b)


\* the pairs of circles without a line
UnconnectedPairs(g) == (Len(g.circles) * (Len(g.circles) - 1)) \div 2 - Len(g.lines)

\* what is left of the call: the phases to come, the lines that can still
\* be pushed and the circles the current pass has still to visit
Remaining(g) ==
    100 * (PhaseRank("done") - PhaseRank(g.pc))
        + UnconnectedPairs(g) + (Len(g.circles) + 1 - g.idx)

\* C28: generateLevel always terminates: every step of the call reduces
\* what is left of it, the priority loop runs at most 1000 times and ends
\* at the first pass without an assignment, the final pass ends for every
\* circle, and scrambling samples at most 200 positions per circle.
C28_GenerationTerminates ==
    [][/\ Remaining(gen') < Remaining(gen)
       /\ Remaining(gen') >= 0
       /\ gen'.attempts <= PriorityMaxAttempts
       /\ (gen.pc = "priority" /\ gen'.pc = "priority")
              => gen.attempts < PriorityMaxAttempts /\ Len(gen'.lines) > Len(gen.lines)
       /\ (gen.pc = "final" /\ gen'.pc = "final")
              => \/ Len(gen'.lines) > Len(gen.lines) /\ gen'.idx = gen.idx
                 \/ gen'.lines = gen.lines /\ gen'.idx = gen.idx + 1
       /\ \A k \in 1..Len(gen'.scrambled) :
              /\ gen'.scrambled[k].attempts >= 1
              /\ gen'.scrambled[k].attempts <= ScrambleMaxAttempts]_vars

\* a level returned after the scrambling used all its attempts on one
\* circle and fewer on another
C28_Witness ==
    /\ gen.pc = "done"
    /\ \E k \in 1..Len(gen.scrambled) : gen.scrambled[k].attempts = ScrambleMaxAttempts
    /\ \E k \in 1..Len(gen.scrambled) : gen.scrambled[k].attempts < ScrambleMaxAttempts
    /\ Len(gen.lines) > gen.attempts


\* C29: scrambling changes positions only: it leaves the id, radius,
\* isDragging and connections of every circle and the whole list of lines
\* as they were, and leaves the captured solution snapshot, with its
\* positions on the circular layout and its lines, as it was.
C29_ScrambleMovesOnly ==
    [][gen.pc = "scramble" =>
          /\ gen'.lines = gen.lines
          /\ Len(gen'.circles) = Len(gen.circles)
          /\ \A k \in 1..Len(gen.circles) :
                [gen'.circles[k] EXCEPT !.position = gen.circles[k].position]
                    = gen.circles[k]
          /\ gen'.solution = gen.solution
          /\ Positions(gen'.solution.circles)
                = Positions(CreateNonIntersectingLayout(gen.nodeCount, gen.canvasSize))
          /\ gen'.solution.lines = gen'.lines]_vars

\* every circle of a level with lines has been moved off the layout
C29_Witness ==
    /\ gen.pc = "check"
    /\ Len(gen.lines) > 0
    /\ \A k \in 1..Len(gen.circles) :
          /\ ~gen.circles[k].position.nan
          /\ gen.circles[k].position # gen.solution.circles[k].position


\* the circles other than the one being scrambled
OtherCircles(g) == {k \in 1..Len(g.circles) : k # g.idx}

\* the squared distance from p to the nearest other circle is at least d2
SeparatedBy(g, p, d2) ==
    /\ ~p.nan
    /\ \A k \in OtherCircles(g) :
          /\ ~g.circles[k].position.nan
          /\ Distance2(p, g.circles[k].position) >= d2

\* the squared score of p: its distance to the nearest other circle
ScoreOf(g, p) ==
    CHOOSE d \in {Distance2(p, g.circles[k].position) : k \in OtherCircles(g)} :
        SeparatedBy(g, p, d)

MeetsThreshold(g, p) ==
    SeparatedBy(g, p, (MIN_DISTANCE * UnitsPerPixel(g.canvasSize))
                        * (MIN_DISTANCE * UnitsPerPixel(g.canvasSize)))

\* the positions sampled for the circle the step has scrambled, and the
\* last of them
SamplesDrawn == gen'.scrambled[gen.idx].sampled

FinalAttempt == gen'.scrambled[gen.idx].last

Committed == gen'.circles[gen.idx].position

\* C30: for each circle the scrambling commits the sampled position with
\* the best score (the largest distance to the nearest other circle) when
\* some sampled position met the separation threshold of 120, and the
\* position of the final attempt when none did.
C30_CommitsBestOrFinal ==
    [][gen.pc = "scramble" =>
          IF \E p \in SamplesDrawn : MeetsThreshold(gen, p)
          THEN /\ MeetsThreshold(gen, Committed)
               /\ Committed \in SamplesDrawn
               /\ \A p \in SamplesDrawn :
                     ~p.nan => SeparatedBy(gen, Committed, ScoreOf(gen, p))
          ELSE Committed = FinalAttempt]_vars


\* p is a pair of numbers inside the playable area of the canvas of g
InPlayableArea(g, p) ==
    /\ ~p.nan
    /\ UnitsPerPixel(g.canvasSize) * ScrambleMargin <= p.x
    /\ p.x <= UnitsPerPixel(g.canvasSize) * (g.canvasSize.x - ScrambleMargin)
    /\ UnitsPerPixel(g.canvasSize) * ScrambleMargin <= p.y
    /\ p.y <= UnitsPerPixel(g.canvasSize) * (g.canvasSize.y - ScrambleMargin)

\* C31: every position the scrambling commits is a pair of well-defined
\* numbers with margin <= x <= canvasSize.x - margin and
\* margin <= y <= canvasSize.y - margin (margin 80), for every canvas size
\* a level can be generated with.
C31_ScrambledInPlayableArea ==
    \A k \in 1..Len(gen.scrambled) : InPlayableArea(gen, gen.circles[k].position)


\* onCircleDrag has moved a circle of gameState.circles in this step
DragStep ==
    /\ game'.hist.last = "onCircleDrag"
    /\ Find(game.gameState.circles.items, game.inputDragged) # 0
    /\ game'.gameState.lines.arr = game.gameState.lines.arr

\* the line has the circle with id cid as an end
Incident(line, cid) == cid \in {line.from, line.to}

\* the flag of line k differs from its value before the step
FlagChanged(k) ==
    game'.gameState.lines.items[k].isIntersecting
        # game.gameState.lines.items[k].isIntersecting

\* line k and a line at the moved circle, with four distinct ends, cross
\* before the step and not after it, or after it and not before
CrossingChanged(k) ==
    \E m \in 1..Len(game.gameState.lines.items) :
        /\ Incident(game.gameState.lines.items[m], game.inputDragged)
        /\ NoCommonId(game.gameState.lines.items[k], game.gameState.lines.items[m])
        /\ SegmentsCross(game.gameState.circles.items, game.gameState.lines.items[k],
                         game.gameState.lines.items[m])
              # SegmentsCross(game'.gameState.circles.items, game.gameState.lines.items[k],
                              game.gameState.lines.items[m])

\* C32: when a single node is moved and updateIntersections runs again,
\* every edge whose flag differs from its value before the move is incident
\* to the moved node.
C32_OnlyIncidentEdgesChange ==
    [][DragStep =>
          \A k \in 1..Len(game.gameState.lines.items) :
              FlagChanged(k) => Incident(game.gameState.lines.items[k], game.inputDragged)]_vars

\* C32 as it holds: every edge whose flag differs from its value before
\* the move is incident to the moved node, or has four distinct ends with an
\* edge incident to the moved node that it crosses either before or after
\* the move and not both.
C32_IncidentOrCrossingIncident ==
    [][DragStep =>
          \A k \in 1..Len(game.gameState.lines.items) :
              FlagChanged(k) =>
                  \/ Incident(game.gameState.lines.items[k], game.inputDragged)
                  \/ CrossingChanged(k)]_vars

\* the drag of one circle of a generated level has changed the flag of a
\* line that is not incident to it
C32_Witness ==
    /\ game.hist.last = "onCircleDrag"
    /\ game.hist.returned.called
    /\ game.gameState.circles.arr = game.hist.returned.level.circles.arr
    /\ Find(game.gameState.circles.items, game.inputDragged) # 0
    /\ \E k \in 1..Len(game.gameState.lines.items) :
          /\ ~Incident(game.gameState.lines.items[k], game.inputDragged)
          /\ game.gameState.lines.items[k].isIntersecting
                # UpdateIntersections(game.hist.returned.level.circles.items,
                                      game.hist.returned.level.lines.items).lines[k].isIntersecting


\* the level is one generateSolvableLevel generates for the level number
\* and the canvas size
FreshlyGenerated(level, levelNumber, canvasSize) ==
    /\ Len(level.circles.items) = CalculateLevelParameters(levelNumber).nodeCount
    /\ \E g \in LevelsOf(levelNumber, canvasSize) :
          /\ level.circles.items = g.circles
          /\ level.lines.items = g.lines
          /\ ~level.solution.isNull
          /\ level.solution.circles.items = g.solution.circles
          /\ level.solution.lines.items = g.solution.lines

\* the stored configurations the game holds, and none
ConfigsHeld == {game.gameState.levelConfigs[l] : l \in GameLevels} \cup {NoConfig}

\* C33: a stored configuration is reused only on an exact match: when
\* storedConfig is absent or its levelNumber, canvasSize.x or canvasSize.y
\* differs from the request, generateLevel ignores it and generates a level
\* with the node count calculateLevelParameters gives for the requested
\* level number.
C33_ReuseOnlyOnExactMatch ==
    /\ (game.hist.returned.called /\ ~ReturnedFromStored)
          => FreshlyGenerated(game.hist.returned.level, game.hist.returned.levelNumber,
                              game.hist.returned.canvasSize)
    /\ \A storedConfig \in ConfigsHeld, l \in GameLevels :
          (\/ storedConfig.isUndefined
           \/ storedConfig.levelNumber # l
           \/ storedConfig.canvasSize.x # game.gameState.canvasSize.x
           \/ storedConfig.canvasSize.y # game.gameState.canvasSize.y)
          => \A level \in GenerateLevel(l, game.gameState.canvasSize, storedConfig,
                                        game.rounding, Fresh(game)) :
                FreshlyGenerated(level, l, game.gameState.canvasSize)

\* restartLevel after a resize: generateLevel was given the configuration
\* stored for the level with another canvas size
C33_Witness ==
    /\ game.hist.last = "restartLevel"
    /\ game.hist.returned.called
    /\ ~game.hist.returned.storedConfig.isUndefined
    /\ game.hist.returned.storedConfig.levelNumber = game.hist.returned.levelNumber
    /\ game.hist.returned.storedConfig.canvasSize # game.hist.returned.canvasSize
    /\ Positions(game.hist.returned.level.circles.items)
          # Positions(game.hist.returned.storedConfig.circles.items)


\* the acceptance test exempts the chord between the circles at indexes c
\* and t from the test against line
ExemptInGenerator(g, c, t, line) ==
    LinesShareEndpoint(g.circles[c].position, g.circles[t].position,
                       PositionOf(g.circles, line.from), PositionOf(g.circles, line.to),
                       UnitsPerPixel(g.canvasSize))

\* the detector exempts the pair: the chord and the line share an end id
ExemptInDetector(g, c, t, line) ==
    ShareEndpoint(Line(g.circles[c].id, g.circles[t].id, FALSE), line)

\* C34: the acceptance test of the generator and the intersection engine
\* use the same exemption: a candidate chord is exempt from the crossing
\* test against an accepted chord exactly when the two share an end id, so
\* the chords accepted by wouldLineIntersect never contain a pair that
\* updateIntersections flags.
C34_SameExemption ==
    (Assigning(gen) \/ gen.pc = "capture") =>
        /\ \A c \in 1..Len(gen.circles), t \in 1..Len(gen.circles), k \in 1..Len(gen.lines) :
              c # t => (ExemptInGenerator(gen, c, t, gen.lines[k])
                            <=> ExemptInDetector(gen, c, t, gen.lines[k]))
        /\ Flagged(UpdateIntersections(gen.circles, gen.lines).lines) = {}


\* the configuration stored for the current level
CurrentConfig == GetConfig(game, game.gameState.currentLevel)

\* C35: whenever the game obtains a regenerated level because the canvas
\* size of the stored configuration no longer matches, it replaces the
\* stored configuration: after any sequence of resize, initializeGame and
\* restartLevel the configuration stored for currentLevel has the canvas
\* size and the initial positions of the puzzle generateLevel returned
\* last, so that two restarts in a row without a resize give the same
\* arrangement.
C35_StoredConfigFollowsRegeneration ==
    game.hist.returned.called =>
        /\ ~CurrentConfig.isUndefined
        /\ CurrentConfig.canvasSize = game.hist.returned.canvasSize
        /\ Positions(CurrentConfig.circles.items)
              = Positions(game.hist.returned.level.circles.items)
        /\ EdgeList(CurrentConfig.lines.items)
              = EdgeList(game.hist.returned.level.lines.items)


\* C36: in every state of the game between handlers, also after a page
\* reload that restores the saved state, isCompleted is true iff the
\* congratulations element (with the button for the next level) is shown.
C36_CompletedIffCongratulated ==
    game.gameState.isCompleted <=> game.congratulations


\* C37: for every sequence of drags, also after the level was completed,
\* isCompleted = true implies that no line of the game state has
\* isIntersecting = true.
C37_CompletedHasNoCrossing ==
    game.gameState.isCompleted =>
        \A k \in 1..Len(game.gameState.lines.items) :
            ~game.gameState.lines.items[k].isIntersecting


\* C38: in every state of the game between handlers, draggedCircleId is
\* non-null iff exactly one node of gameState.circles has isDragging = true
\* and the id of that node is draggedCircleId, for every interleaving of
\* the drag handlers with initializeGame, restartLevel, nextLevel,
\* showSolution and its timer.
DraggingNodes ==
    {k \in 1..Len(game.gameState.circles.items) :
        game.gameState.circles.items[k].isDragging}

C38_DraggedIdIffOneDraggingNode ==
    (game.gameState.draggedCircleId # -1) <=>
        /\ Cardinality(DraggingNodes) = 1
        /\ \A k \in DraggingNodes :
              game.gameState.circles.items[k].id = game.gameState.draggedCircleId


-----------------------------------------------------------------------------
(* Properties of the input manager and of the update manager (SpecPage) *)

Callbacks == page.input.delivered

\* C39: for every sequence of pointer-down, pointer-move and pointer-up
\* events (mouse and touch) the drag callbacks come in well-formed
\* sessions: an onCircleDragStart(id) comes first or right after an
\* onCircleDragEnd, and an onCircleDrag(id) or onCircleDragEnd(id) comes
\* right after the onCircleDragStart(id) or an onCircleDrag(id) of the same
\* session, never outside one.
C39_WellFormedSessions ==
    \A i \in 1..Len(Callbacks) :
        IF Callbacks[i].callback = "onCircleDragStart"
        THEN i = 1 \/ Callbacks[i - 1].callback = "onCircleDragEnd"
        ELSE /\ i > 1
             /\ Callbacks[i - 1].callback \in {"onCircleDragStart", "onCircleDrag"}
             /\ Callbacks[i - 1].id = Callbacks[i].id

\* C40: once destroy() has been called, no periodic update check remains
\* scheduled and updateCheckInterval is null, however destroy() interleaves
\* with the asynchronous init().
C40_DestroyedHasNoTimer ==
    page.updater.destroyed =>
        /\ page.updater.timers = {}
        /\ page.updater.updateCheckInterval = 0

====
